---- MODULE Spec2Model ----
(***************************************************************************)
(* Model of the Flutter deprecations server: the cache store               *)
(* (internal/services/cache.go), the refresh orchestrator and the code     *)
(* matcher (internal/services/deprecations.go) and the document source     *)
(* (internal/services/flutter_api.go).                                     *)
(*                                                                         *)
(* Time is counted in hours.  A Go string (a snippet, an API name, a       *)
(* description) is a sequence of lexemes, the empty string the empty       *)
(* sequence.  The bytes of the cache file are a sequence of JSON tokens.   *)
(***************************************************************************)
EXTENDS Integers, Sequences, FiniteSets, TLC

\* ------------------------------------------------------------------------
\* Bounds of the model
\* ------------------------------------------------------------------------
\* the wall clock, in hours, when the first process starts
StartNow == 20000
\* the clock stops advancing MaxElapsed hours after StartNow
MaxElapsed == 25
\* how many iteration orders of the pattern map the model draws from
NumOrders == 2
\* a write of the cache file is cut after at most ChunkLen tokens, or not at all
ChunkLen == 4
\* a snippet of the matcher's own specification joins at most MaxParts fragments
MaxParts == 2
\* a cache value of the round trip holds at most MaxDeps entries
MaxDeps == 2

\* ------------------------------------------------------------------------
\* Program constants
\* ------------------------------------------------------------------------
CACHE_DURATION == 24
\* the zero time.Time, the LastUpdated of a cache that was never saved
ZeroTime == 0

\* The two programs that share the cache file: the server (the refresh of
\* its start and the tool handlers) and a run of the command line with the
\* update or the clear-cache flag
Server == "server"
Cli == "cli"
Procs == {Server, Cli}
\* the amounts by which the clock advances between two steps
TickSteps == {23, 24, 25}

VARIABLES
    now,      \* wall clock
    file,     \* the cache file: whether it exists, and its bytes
    pc,       \* pc[p]: position of process p in its operation
    op,       \* op[p]: the operation process p runs
    cache,    \* cache[p]: the *DeprecationCache held by the operation
    data,     \* data[p]: the bytes Save is writing
    off,      \* off[p]: the offset of Save's file descriptor
    fd,       \* fd[p]: "none", "live", or "orphan" (the file was unlinked)
    ret,      \* ret[p]: the error value the operation returned
    code,     \* code[p]: the snippet given to CheckCodeForDeprecations
    found,    \* found[p]: the records CheckCodeForDeprecations returned
    fetches,  \* fetches[p]: HTTP requests the operation has issued
    saves,    \* saves[p]: calls of Save the operation has made
    answer,   \* answer[p]: the answer of the release endpoint to the operation
    scanned,  \* scanned[p]: the records the refresh extracted or scanned
    before,   \* before[p]: what Load returned when the operation's Save began
    source,   \* the answers of the document source to a scan
    fsd       \* the result of FetchFlutterSourceDeprecations on source

vars == <<now, file, pc, op, cache, data, off, fd, ret, code, found,
          fetches, saves, answer, scanned, before, source, fsd>>

\* the cache file does not exist
NoFile == [exists |-> FALSE, bytes |-> <<>>]

\* ------------------------------------------------------------------------
\* Sequence helpers
\* ------------------------------------------------------------------------
RECURSIVE Flatten(_)
Flatten(ss) == IF ss = <<>> THEN <<>> ELSE Head(ss) \o Flatten(Tail(ss))

\* strings.Contains on lexeme sequences: sub occurs contiguously in s
Contains(s, sub) ==
    \E i \in 0..(Len(s) - Len(sub)) :
        \A k \in 1..Len(sub) : s[i + k] = sub[k]

\* ------------------------------------------------------------------------
\* Lexemes: the units of the strings the program matches against.  No
\* lexeme contains a literal of a known pattern as a proper substring, so
\* matching lexeme by lexeme agrees with matching character by character.
\* Every string field is a sequence of lexemes; a string the program only
\* copies is a sequence of one lexeme, and "" is <<>>.
\* ------------------------------------------------------------------------
WordLexemes ==
    {"Color", "red", "withOpacity", "0", "5", "RaisedButton", "FlatButton",
     "OutlineButton", "ElevatedButton", "Scaffold", "of", "context",
     "showSnackBar", "FloatingActionButton", "child", "Widget", "bar",
     "Text", "and", "onPressed"}

\* ------------------------------------------------------------------------
\* models.Deprecation and models.DeprecationCache
\* ------------------------------------------------------------------------
Deprecation(api, replacement, version, description, example) ==
    [API |-> api, Replacement |-> replacement, Version |-> version,
     Description |-> description, Example |-> example]

DeprecationCache(lastUpdated, deprecations) ==
    [LastUpdated |-> lastUpdated, Deprecations |-> deprecations]

\* &models.DeprecationCache{Deprecations: []models.Deprecation{}}
EmptyCache == DeprecationCache(ZeroTime, <<>>)

\* ------------------------------------------------------------------------
\* Regular expressions over lexemes
\* ------------------------------------------------------------------------
Lit(s) == [k |-> "lit", s |-> s]
\* \w+
WordPlus == [k |-> "word", s |-> ""]
\* [^)]+
NotParenPlus == [k |-> "notparen", s |-> ""]

\* re matches a prefix of s[i..]
RECURSIVE MatchHere(_, _, _)
MatchHere(re, s, i) ==
    IF re = <<>> THEN TRUE
    ELSE LET e == Head(re) IN
         CASE e.k = "lit" ->
                /\ i <= Len(s)
                /\ s[i] = e.s
                /\ MatchHere(Tail(re), s, i + 1)
           [] e.k = "word" ->
                \E j \in i..Len(s) :
                    /\ \A k \in i..j : s[k] \in WordLexemes
                    /\ MatchHere(Tail(re), s, j + 1)
           [] e.k = "notparen" ->
                \E j \in i..Len(s) :
                    /\ \A k \in i..j : s[k] # ")"
                    /\ MatchHere(Tail(re), s, j + 1)

\* regexp.MatchString: the expression matches anywhere in s
MatchString(re, s) == \E i \in 1..(Len(s) + 1) : MatchHere(re, s, i)

\* ------------------------------------------------------------------------
\* The known-pattern table
\* ------------------------------------------------------------------------
\* the entries of the map literal, in the order they are written
getDeprecationPatterns ==
    << [regex |-> <<Lit("Color"), Lit("."), WordPlus, Lit("."),
                    Lit("withOpacity"), Lit("("), NotParenPlus, Lit(")")>>,
        dep |-> Deprecation(<<"Color", ".", "withOpacity">>,
                    <<"Color.withValues(alpha: $1)">>, <<>>,
                    <<"withOpacity is deprecated, use withValues instead">>,
                    <<"Color.red.withOpacity(0.5) -> Color.red.withValues(alpha: 0.5)">>)],
       [regex |-> <<Lit("RaisedButton")>>,
        dep |-> Deprecation(<<"RaisedButton">>, <<"ElevatedButton">>, <<>>,
                    <<"RaisedButton is deprecated, use ElevatedButton instead">>,
                    <<"RaisedButton -> ElevatedButton">>)],
       [regex |-> <<Lit("FlatButton")>>,
        dep |-> Deprecation(<<"FlatButton">>, <<"TextButton">>, <<>>,
                    <<"FlatButton is deprecated, use TextButton instead">>,
                    <<"FlatButton -> TextButton">>)],
       [regex |-> <<Lit("OutlineButton")>>,
        dep |-> Deprecation(<<"OutlineButton">>, <<"OutlinedButton">>, <<>>,
                    <<"OutlineButton is deprecated, use OutlinedButton instead">>,
                    <<"OutlineButton -> OutlinedButton">>)],
       [regex |-> <<Lit("Scaffold"), Lit("."), Lit("of"), Lit("("),
                    Lit("context"), Lit(")"), Lit("."), Lit("showSnackBar")>>,
        dep |-> Deprecation(<<"Scaffold", ".", "of", "(", "context", ")", ".",
                              "showSnackBar">>,
                    <<"ScaffoldMessenger.of(context).showSnackBar">>, <<>>,
                    <<"Direct showSnackBar on Scaffold is deprecated">>,
                    <<"Scaffold.of(context).showSnackBar -> ScaffoldMessenger.of(context).showSnackBar">>)],
       [regex |-> <<Lit("FloatingActionButton"), Lit("("), Lit("child"),
                    Lit(":")>>,
        dep |-> Deprecation(<<"FloatingActionButton", "(", "child", ":">>,
                    <<"FloatingActionButton with specific constructors">>, <<>>,
                    <<"Consider using FloatingActionButton.extended or other specific constructors">>,
                    <<>>)] >>

\* the API names of the table, for reading the formulas
ColorEntry == getDeprecationPatterns[1].dep
RaisedEntry == getDeprecationPatterns[2].dep
FlatEntry == getDeprecationPatterns[3].dep
ScaffoldEntry == getDeprecationPatterns[5].dep

\* The table is a Go map: a range over it visits the entries in an order
\* the runtime chooses.  An order is a permutation of the entries; the
\* model draws it from the first NumOrders rotations.
Rotation(k) ==
    [i \in 1..Len(getDeprecationPatterns) |->
        ((i + k - 1) % Len(getDeprecationPatterns)) + 1]
MapOrders == {Rotation(k) : k \in 0..(NumOrders - 1)}

\* the entries as a range over the map visits them
RangePatterns(order) ==
    [i \in 1..Len(getDeprecationPatterns) |-> getDeprecationPatterns[order[i]]]

\* ------------------------------------------------------------------------
\* The cache file (internal/services/cache.go)
\* ------------------------------------------------------------------------
\* The bytes of the file are a sequence of tokens: a head
\*   { "last_updated": v, "deprecations": [
\* one token for each entry of the array, and a tail ] }.  A write can be
\* cut between two tokens.
HeadToken(t) == [t |-> "head", last_updated |-> t]
TailToken == [t |-> "tail"]
\* a byte range that was never written (a hole left by a write past the end)
NulToken == [t |-> "nul"]

\* a byte that belongs to no valid UTF-8 encoding, as a lexeme, and the
\* replacement rune U+FFFD
InvalidByte == "<0xFF>"
ReplacementRune == "<U+FFFD>"

\* a string as encoding/json writes it: coerced to valid UTF-8, every
\* invalid byte replaced by the replacement rune
ToValidUTF8(str) ==
    [i \in 1..Len(str) |->
        IF str[i] = InvalidByte THEN ReplacementRune ELSE str[i]]

\* one entry as json.MarshalIndent writes it: "example" has omitempty
DepToken(d) ==
    IF d.Example = <<>>
    THEN [t |-> "dep", api |-> ToValidUTF8(d.API),
          replacement |-> ToValidUTF8(d.Replacement),
          version |-> ToValidUTF8(d.Version),
          description |-> ToValidUTF8(d.Description)]
    ELSE [t |-> "dep", api |-> ToValidUTF8(d.API),
          replacement |-> ToValidUTF8(d.Replacement),
          version |-> ToValidUTF8(d.Version),
          description |-> ToValidUTF8(d.Description),
          example |-> ToValidUTF8(d.Example)]

\* a faulty decoding: the example is never read back
DepOfTokenDroppingExample(k) ==
    Deprecation(k.api, k.replacement, k.version, k.description, <<>>)

\* one entry as json.Unmarshal reads it: an absent field is left ""
DepOfToken(k) ==
    Deprecation(k.api, k.replacement, k.version, k.description,
                IF "example" \in DOMAIN k THEN k.example ELSE <<>>)

\* json.MarshalIndent(cache, "", "  ")
Marshal(c) ==
    <<HeadToken(c.LastUpdated)>>
        \o [i \in 1..Len(c.Deprecations) |-> DepToken(c.Deprecations[i])]
        \o <<TailToken>>

\* the bytes are one complete JSON value of the cache's shape
WellFormed(bytes) ==
    /\ Len(bytes) >= 2
    /\ bytes[1].t = "head"
    /\ bytes[Len(bytes)].t = "tail"
    /\ \A i \in 2..(Len(bytes) - 1) : bytes[i].t = "dep"

\* json.Unmarshal(data, &cache)
Unmarshal(bytes) ==
    IF WellFormed(bytes)
    THEN [err |-> "nil",
          cache |-> DeprecationCache(bytes[1].last_updated,
                        [i \in 1..(Len(bytes) - 2) |-> DepOfToken(bytes[i + 1])])]
    ELSE [err |-> "json", cache |-> EmptyCache]

\* a faulty Load: a file that does not exist is an error
LoadFailingWhenAbsent(f, readFails) ==
    IF ~f.exists \/ readFails
    THEN [err |-> "read", cache |-> EmptyCache]
    ELSE IF Unmarshal(f.bytes).err # "nil"
    THEN [err |-> "nil", cache |-> EmptyCache]
    ELSE [err |-> "nil", cache |-> Unmarshal(f.bytes).cache]

\* a faulty Load: the failure of json.Unmarshal is returned to the caller
LoadSurfacingParse(f, readFails) ==
    IF ~f.exists
    THEN [err |-> "nil", cache |-> EmptyCache]
    ELSE IF readFails
    THEN [err |-> "read", cache |-> EmptyCache]
    ELSE Unmarshal(f.bytes)

\* CacheService.Load on file f; readFails: ioutil.ReadFile returns an error
Load(f, readFails) ==
    IF ~f.exists
    THEN [err |-> "nil", cache |-> EmptyCache]
    ELSE IF readFails
    THEN [err |-> "read", cache |-> EmptyCache]
    ELSE IF Unmarshal(f.bytes).err # "nil"
    THEN [err |-> "nil", cache |-> EmptyCache]
    ELSE [err |-> "nil", cache |-> Unmarshal(f.bytes).cache]

\* the file after a write of chunk at offset o: bytes between the end of
\* the file and o are a hole
WriteAt(bytes, o, chunk) ==
    LET n == IF Len(bytes) > o + Len(chunk) THEN Len(bytes) ELSE o + Len(chunk)
    IN  [i \in 1..n |->
            IF i > o /\ i <= o + Len(chunk) THEN chunk[i - o]
            ELSE IF i <= Len(bytes) THEN bytes[i]
            ELSE NulToken]

\* ------------------------------------------------------------------------
\* The code matcher (internal/services/deprecations.go)
\* ------------------------------------------------------------------------
\* a faulty pass (a): the loop ends at the first entry that matches
MatchKnownPatternsFirst(snippet, order) ==
    LET hit == SelectSeq(RangePatterns(order),
                         LAMBDA e : MatchString(e.regex, snippet))
    IN  IF hit = <<>> THEN <<>> ELSE <<hit[1].dep>>

\* pass (a): the table entries whose expression matches the snippet, in
\* the order the range over the map visits them
MatchKnownPatterns(snippet, order) ==
    LET hit == SelectSeq(RangePatterns(order),
                         LAMBDA e : MatchString(e.regex, snippet))
    IN  [i \in 1..Len(hit) |-> hit[i].dep]

\* pass (b): the cached entries whose API name occurs in the snippet
MatchCached(snippet, loaded) ==
    IF loaded.err = "nil"
    THEN SelectSeq(loaded.cache.Deprecations,
                   LAMBDA d : d.API # <<>> /\ Contains(snippet, d.API))
    ELSE <<>>

\* DeprecationService.CheckCodeForDeprecations(code), with the result of
\* its Load and the order of its range over the table
CheckCodeForDeprecations(snippet, loaded, order) ==
    MatchKnownPatterns(snippet, order) \o MatchCached(snippet, loaded)

\* ------------------------------------------------------------------------
\* The release endpoint (internal/services/flutter_api.go)
\* ------------------------------------------------------------------------
\* An HTTP answer: net is "ok" or "err" (http.Get fails), status the status
\* code, body its content, readOK whether the body can be read to its end.
Response(net, status, body, readOK) ==
    [net |-> net, status |-> status, body |-> body, readOK |-> readOK]

\* a body that is a JSON object with a "message" member
MessageBody(message) == [kind |-> "message", message |-> message]
\* a body that is a JSON array of releases
ReleasesBody(releases) == [kind |-> "releases", releases |-> releases]
\* a body that is a JSON array of directory entries
FilesBody(files) == [kind |-> "files", files |-> files]
\* a body that is no JSON at all
GarbageBody == [kind |-> "garbage"]

\* PublishedAt of a release whose date does not parse as RFC 3339
InvalidDate == -1

FlutterRelease(tag, publishedAt, body, prerelease) ==
    [TagName |-> tag, PublishedAt |-> publishedAt, Body |-> body,
     Prerelease |-> prerelease]

\* json.Unmarshal(body, &errorResp) == nil: the body is a JSON object
IsErrorObject(resp) == resp.readOK /\ resp.body.kind = "message"

RateLimitMessage == <<"API rate limit exceeded">>

\* the comparison given to sort.Slice: newest first, false when either
\* date does not parse
PublishedAfter(a, b) ==
    /\ a.PublishedAt # InvalidDate
    /\ b.PublishedAt # InvalidDate
    /\ a.PublishedAt > b.PublishedAt

\* one pass of the insertion sort that sort.Slice runs on a short slice:
\* the element at j moves down while it is less than its predecessor
RECURSIVE SiftDown(_, _)
SiftDown(s, j) ==
    IF j > 1 /\ PublishedAfter(s[j], s[j - 1])
    THEN SiftDown([s EXCEPT ![j] = s[j - 1], ![j - 1] = s[j]], j - 1)
    ELSE s

RECURSIVE InsertionSort(_, _)
InsertionSort(s, i) ==
    IF i > Len(s) THEN s ELSE InsertionSort(SiftDown(s, i), i + 1)

SortNewestFirst(releases) == InsertionSort(releases, 2)

\* FlutterAPIService.FetchReleases on the answer of the release endpoint
FetchReleases(resp) ==
    IF resp.net # "ok"
    THEN [err |-> "transport", releases |-> <<>>]
    ELSE IF resp.status = 403 \/ resp.status = 401 \/ resp.status = 200
    THEN IF IsErrorObject(resp) /\ Contains(resp.body.message, RateLimitMessage)
         THEN [err |-> "rate_limit", releases |-> <<>>]
         ELSE [err |-> "forbidden", releases |-> <<>>]
    ELSE IF resp.status # 200
    THEN [err |-> "status", releases |-> <<>>]
    ELSE IF ~resp.readOK
    THEN [err |-> "read", releases |-> <<>>]
    ELSE IF resp.body.kind # "releases"
    THEN [err |-> "json", releases |-> <<>>]
    ELSE [err |-> "nil", releases |-> SortNewestFirst(resp.body.releases)]

\* strings.TrimPrefix(release.TagName, "v")
ParseVersionFromRelease(release) ==
    IF release.TagName # <<>> /\ Head(release.TagName) = "v"
    THEN Tail(release.TagName)
    ELSE release.TagName

\* ------------------------------------------------------------------------
\* Aggregation (internal/services/deprecations.go)
\* ------------------------------------------------------------------------
\* time.Now().AddDate(0, -18, 0), taken as 548 days, in hours
EighteenMonths == 13152

isVersionFromLast18Months(publishedAt, t) ==
    /\ publishedAt # InvalidDate
    /\ publishedAt > t - EighteenMonths

\* bufio.MaxScanTokenSize, the size of the buffer of a bufio.Scanner
MaxScanTokenSize == 65536

\* a lexeme that stands for a word of MaxScanTokenSize - 1 characters
LongRun == "x{65535}"

\* the number of characters of a string: a lexeme counts the characters
\* the table gives it, and 1 when the table does not name it
LexemeLen(x) ==
    CASE x = "ColorScheme" -> 11
      [] x = LongRun -> MaxScanTokenSize - 1
      [] x = "background" -> 10
      [] x = "surface" -> 7
      [] x = "RaisedButton" -> 12
      [] x = "ElevatedButton" -> 14
      [] x = "Tabs" -> 4
      [] x = "Ab" -> 2
      [] OTHER -> 1

RECURSIVE CharLen(_)
CharLen(str) == IF str = <<>> THEN 0 ELSE LexemeLen(Head(str)) + CharLen(Tail(str))

\* The body of a release is given by what the three expressions of
\* ExtractDeprecationsFromReleaseNotes find in it: Body[k] is the sequence
\* of submatches of pattern k, each with the groups api and replacement.
Submatch(api, replacement) == [api |-> api, replacement |-> replacement]

\* the records one release contributes
RECURSIVE ReleaseDeprecations(_, _)
ReleaseDeprecations(release, matches) ==
    IF matches = <<>> THEN <<>>
    ELSE LET m == Head(matches)
             version == ParseVersionFromRelease(release)
         IN  IF CharLen(m.api) < 3
                \/ (~Contains(m.api, <<".">>) /\ CharLen(m.api) < 5)
             THEN ReleaseDeprecations(release, Tail(matches))
             ELSE <<Deprecation(m.api, m.replacement, version,
                        <<"Deprecated in Flutter ">> \o version, <<>>)>>
                  \o ReleaseDeprecations(release, Tail(matches))

RECURSIVE ExtractFromReleases(_, _)
ExtractFromReleases(releases, t) ==
    IF releases = <<>> THEN <<>>
    ELSE (IF isVersionFromLast18Months(Head(releases).PublishedAt, t)
          THEN ReleaseDeprecations(Head(releases), Flatten(Head(releases).Body))
          ELSE <<>>)
         \o ExtractFromReleases(Tail(releases), t)

\* the copies of the table entries, each stamped "Multiple versions", in
\* the order the range over the map visits them
StampedPatterns(order) ==
    [i \in 1..Len(getDeprecationPatterns) |->
        [RangePatterns(order)[i].dep EXCEPT !.Version = <<"Multiple versions">>]]

\* a faulty aggregation: the table is appended only to records of releases
ExtractWithTableIfAny(releases, order, t) ==
    IF ExtractFromReleases(releases, t) = <<>> THEN <<>>
    ELSE ExtractFromReleases(releases, t) \o StampedPatterns(order)

\* DeprecationService.ExtractDeprecationsFromReleaseNotes(releases) at
\* time t, the range over the table visiting it in the given order
ExtractDeprecationsFromReleaseNotes(releases, order, t) ==
    ExtractFromReleases(releases, t) \o StampedPatterns(order)

\* ------------------------------------------------------------------------
\* The document source (internal/services/flutter_api.go)
\* ------------------------------------------------------------------------
\* the source prefixes, in the order FetchFlutterSourceDeprecations walks them
directories ==
    <<"widgets/", "material/", "cupertino/", "services/", "rendering/",
      "foundation/", "painting/", "gestures/", "animation/">>

\* A world gives the answer to every request of a scan: listing[d] to the
\* listing of prefix d, doc[u] to the fetch of document u.  A document's
\* body is given by the records the scan of its lines yields.
DirEntry(name, type) == [Name |-> name, Type |-> type]
DocResponse(net, status, scan) == [net |-> net, status |-> status, scan |-> scan]

\* the URL of a document: baseURL + file.Name
DocURL(dir, name) == <<dir>> \o name

\* strings.HasSuffix(file.Name, ".dart")
HasDartSuffix(name) == name # <<>> /\ name[Len(name)] = ".dart"

\* The result of a scan carries, next to the error and the records, the
\* requests (http.Get) it issued, in order.
ScanResult(err, deps, reqs) == [err |-> err, deps |-> deps, reqs |-> reqs]

\* FlutterAPIService.ScanFileForDeprecations up to the scan of the lines:
\* the fetch of the document and its status check
ScanFileForDeprecations(world, url) ==
    LET resp == IF url \in DOMAIN world.doc THEN world.doc[url]
                ELSE DocResponse("ok", 404, <<>>)
    IN  IF resp.net # "ok"
        THEN ScanResult("transport", <<>>, <<url>>)
        ELSE IF resp.status # 200
        THEN ScanResult("status", <<>>, <<url>>)
        ELSE ScanResult("nil", resp.scan, <<url>>)

\* the loop over the entries of a listing: a document that fails is skipped
RECURSIVE ScanFiles(_, _, _, _)
ScanFiles(world, dir, files, acc) ==
    IF files = <<>> THEN acc
    ELSE LET entry == Head(files)
             r == ScanFileForDeprecations(world, DocURL(dir, entry.Name))
         IN  IF entry.Type = "file" /\ HasDartSuffix(entry.Name)
             THEN IF r.err # "nil"
                  THEN ScanFiles(world, dir, Tail(files),
                           ScanResult("nil", acc.deps, acc.reqs \o r.reqs))
                  ELSE ScanFiles(world, dir, Tail(files),
                           ScanResult("nil", acc.deps \o r.deps, acc.reqs \o r.reqs))
             ELSE ScanFiles(world, dir, Tail(files), acc)

\* the URL of the listing of a prefix
ListingURL(dir) == <<"contents/", dir>>

\* a faulty listing: the message of a 403 answer is not looked at
scanDirectoryIgnoringMessage(world, dir) ==
    LET resp == world.listing[dir]
        reqs == <<ListingURL(dir)>>
    IN  IF resp.net # "ok"
        THEN ScanResult("transport", <<>>, reqs)
        ELSE IF resp.status = 403
        THEN ScanResult("forbidden", <<>>, reqs)
        ELSE IF resp.status # 200
        THEN ScanResult("status", <<>>, reqs)
        ELSE IF ~resp.readOK
        THEN ScanResult("read", <<>>, reqs)
        ELSE IF resp.body.kind # "files"
        THEN ScanResult("json", <<>>, reqs)
        ELSE ScanFiles(world, dir, resp.body.files, ScanResult("nil", <<>>, reqs))

\* FlutterAPIService.scanDirectoryForDeprecations(baseURL + dir)
scanDirectoryForDeprecations(world, dir) ==
    LET resp == world.listing[dir]
        reqs == <<ListingURL(dir)>>
    IN  IF resp.net # "ok"
        THEN ScanResult("transport", <<>>, reqs)
        ELSE IF resp.status = 403
        THEN IF IsErrorObject(resp) /\ Contains(resp.body.message, RateLimitMessage)
             THEN ScanResult("rate_limit", <<>>, reqs)
             ELSE ScanResult("forbidden", <<>>, reqs)
        ELSE IF resp.status # 200
        THEN ScanResult("status", <<>>, reqs)
        ELSE IF ~resp.readOK
        THEN ScanResult("read", <<>>, reqs)
        ELSE IF resp.body.kind # "files"
        THEN ScanResult("json", <<>>, reqs)
        ELSE ScanFiles(world, dir, resp.body.files, ScanResult("nil", <<>>, reqs))

\* the loop over the prefixes: a prefix that fails is skipped
RECURSIVE ScanDirectories(_, _, _)
ScanDirectories(world, dirs, acc) ==
    IF dirs = <<>> THEN acc
    ELSE LET r == scanDirectoryForDeprecations(world, Head(dirs))
         IN  IF r.err # "nil"
             THEN ScanDirectories(world, Tail(dirs),
                      ScanResult("nil", acc.deps, acc.reqs \o r.reqs))
             ELSE ScanDirectories(world, Tail(dirs),
                      ScanResult("nil", acc.deps \o r.deps, acc.reqs \o r.reqs))

\* a faulty walk: the first prefix that fails ends the scan with its error
RECURSIVE ScanDirectoriesAborting(_, _, _)
ScanDirectoriesAborting(world, dirs, acc) ==
    IF dirs = <<>> THEN acc
    ELSE LET r == scanDirectoryForDeprecations(world, Head(dirs))
         IN  IF r.err # "nil"
             THEN ScanResult(r.err, <<>>, acc.reqs \o r.reqs)
             ELSE ScanDirectoriesAborting(world, Tail(dirs),
                      ScanResult("nil", acc.deps \o r.deps, acc.reqs \o r.reqs))

FetchFlutterSourceDeprecationsAborting(world) ==
    ScanDirectoriesAborting(world, directories, ScanResult("nil", <<>>, <<>>))

\* FlutterAPIService.FetchFlutterSourceDeprecations()
FetchFlutterSourceDeprecations(world) ==
    ScanDirectories(world, directories, ScanResult("nil", <<>>, <<>>))

\* FlutterAPIService.FetchFlutterSourceDeprecationsWithProgress: the same
\* walk, with a message to the progress sink at each milestone
FetchFlutterSourceDeprecationsWithProgress(world) ==
    ScanDirectories(world, directories, ScanResult("nil", <<>>, <<>>))

\* ------------------------------------------------------------------------
\* Inputs: answers of the document source
\* ------------------------------------------------------------------------
DirSet == {directories[i] : i \in 1..Len(directories)}

OkListing(files) == Response("ok", 200, FilesBody(files), TRUE)

ListingFailKinds == {"transport", "rate_limit", "forbidden", "status", "json", "read"}

\* a listing answer on which scanDirectoryForDeprecations fails
FailedListing(kind) ==
    CASE kind = "transport" -> Response("err", 0, GarbageBody, FALSE)
      [] kind = "rate_limit" ->
            Response("ok", 403,
                     MessageBody(<<"API rate limit exceeded", " for 192.0.2.1">>), TRUE)
      [] kind = "forbidden" -> Response("ok", 403, MessageBody(<<"Forbidden">>), TRUE)
      [] kind = "status" -> Response("ok", 404, MessageBody(<<"Not Found">>), TRUE)
      [] kind = "json" -> Response("ok", 200, GarbageBody, TRUE)
      [] kind = "read" -> Response("ok", 200, FilesBody(<<>>), FALSE)

DocFailKinds == {"transport", "status"}

FailedDoc(kind) ==
    IF kind = "transport" THEN DocResponse("err", 0, <<>>)
    ELSE DocResponse("ok", 404, <<>>)

\* the entries the prefixes list: Dart files, a file of another kind and a
\* sub-directory whose name ends in .dart
BaseFiles(dir) ==
    CASE dir = "widgets/" ->
            <<DirEntry(<<"a", ".dart">>, "file"),
              DirEntry(<<"README", ".md">>, "file"),
              DirEntry(<<"gen", ".dart">>, "dir"),
              DirEntry(<<"b", ".dart">>, "file")>>
      [] dir = "material/" -> <<DirEntry(<<"c", ".dart">>, "file")>>
      [] OTHER -> <<>>

DocA == DocURL("widgets/", <<"a", ".dart">>)
DocB == DocURL("widgets/", <<"b", ".dart">>)
DocC == DocURL("material/", <<"c", ".dart">>)
Docs == {DocA, DocB, DocC}

WidgetBar ==
    Deprecation(<<"Widget", ".", "bar">>, <<"Foo">>, <<>>, <<"Use Foo instead">>, <<>>)
OldThing ==
    Deprecation(<<"OldThing">>, <<>>, <<>>, <<"No longer supported">>, <<>>)
RaisedScanned ==
    Deprecation(<<"RaisedButton">>, <<"ElevatedButton">>, <<>>,
                <<"Use ElevatedButton instead">>, <<>>)

\* the records the scan of each document yields
BaseScan(url) ==
    CASE url = DocA -> <<WidgetBar>>
      [] url = DocB -> <<OldThing, WidgetBar>>
      [] url = DocC -> <<RaisedScanned>>

\* the world in which the listings of failDirs and the fetches of failDocs
\* fail, in the given ways, and every other request is answered
World(failDirs, dirKind, failDocs, docKind) ==
    [listing |-> [d \in DirSet |->
                    IF d \in failDirs THEN FailedListing(dirKind)
                    ELSE OkListing(BaseFiles(d))],
     doc |-> [u \in Docs |->
                    IF u \in failDocs THEN FailedDoc(docKind)
                    ELSE DocResponse("ok", 200, BaseScan(u))]]

Worlds ==
    {World(fdirs, dk, fdocs, k) :
        fdirs \in SUBSET DirSet, dk \in ListingFailKinds,
        fdocs \in SUBSET Docs, k \in DocFailKinds}

\* the worlds a refresh of the main specification meets
SampleWorlds ==
    {World({}, "status", {DocB, DocC}, "status"),
     World(DirSet, "rate_limit", {}, "status")}

NoScan == ScanResult("none", <<>>, <<>>)

\* ------------------------------------------------------------------------
\* Inputs: answers of the release endpoint
\* ------------------------------------------------------------------------
RecentRelease ==
    FlutterRelease(<<"v", "3.32.0">>, StartNow - 4000,
        <<<<>>,
          <<Submatch(<<"RaisedButton">>, <<"ElevatedButton">>),
            Submatch(<<"Ab">>, <<"Tabs">>)>>,
          <<>>>>,
        FALSE)
OldRelease ==
    FlutterRelease(<<"2.0.0">>, StartNow - 17000,
        <<<<>>, <<Submatch(<<"ColorScheme", ".", "background">>,
                           <<"ColorScheme", ".", "surface">>)>>, <<>>>>,
        FALSE)

ReleaseResponses ==
    {Response("ok", 200, ReleasesBody(<<OldRelease, RecentRelease>>), TRUE),
     Response("ok", 200, ReleasesBody(<<>>), TRUE),
     Response("ok", 403,
              MessageBody(<<"API rate limit exceeded", " for 192.0.2.1">>), TRUE),
     Response("ok", 404, MessageBody(<<"Not Found">>), TRUE),
     Response("err", 0, GarbageBody, FALSE)}

NoAnswer == Response("none", 0, GarbageBody, FALSE)

\* ------------------------------------------------------------------------
\* Inputs: snippets
\* ------------------------------------------------------------------------
SnippetColor ==
    <<"Color", ".", "red", ".", "withOpacity", "(", "0", ".", "5", ")">>
SnippetRaised ==
    <<"RaisedButton", "(", "onPressed", ":", " ", "(", ")", " ", "{}", ",", " ",
      "child", ":", " ", "Text", "(", "'Click'", ")", ")">>
SnippetBoth ==
    <<"RaisedButton", "(", "child", ":", " ", "Text", "(", "'Click'", ")", ")",
      " ", "and", " ",
      "FlatButton", "(", "child", ":", " ", "Text", "(", "'Flat'", ")", ")">>
SnippetElevated ==
    <<"ElevatedButton", "(", "onPressed", ":", " ", "(", ")", " ", "{}", ",", " ",
      "child", ":", " ", "Text", "(", "'Modern'", ")", ")">>
SnippetScaffold ==
    <<"Scaffold", ".", "of", "(", "context", ")", ".", "showSnackBar", "(",
      "SnackBar", "(", "content", ":", " ", "Text", "(", "'Test'", ")", ")", ")">>
SnippetWidgetBar == <<"Widget", ".", "bar", "(", ")">>

TestSnippets ==
    {SnippetColor, SnippetRaised, SnippetBoth, SnippetElevated,
     SnippetScaffold, SnippetWidgetBar}

\* ------------------------------------------------------------------------
\* The processes.  Each process runs one operation at a time.  The server
\* runs the refresh of its start (UpdateCache), checks and listings; the
\* command line runs the refresh of the update flag
\* (UpdateCacheWithProgress) and the clearing of the cache.  An operation
\* is cut into steps where it reads or writes the cache file.
\* ------------------------------------------------------------------------
Set(f, p, v) == [f EXCEPT ![p] = v]

\* time.Since(t)
Since(t) == now - t

\* a faulty gate: the refresh never short-circuits
FreshNever(c) == FALSE

\* a faulty gate: a cache of exactly the TTL's age still counts as fresh
FreshInclusive(c) == Since(c.LastUpdated) <= CACHE_DURATION

\* the staleness gate of UpdateCache: the loaded cache is younger than the TTL
Fresh(c) == Since(c.LastUpdated) < CACHE_DURATION

\* a faulty check: the error of FetchReleases is ignored
FetchFailedNever(r) == FALSE

\* if err != nil { return err } after FetchReleases
FetchFailed(r) == r.err # "nil"

\* a faulty refresh: the new records are appended to the loaded ones
RefreshedMerging(c, deprecations, t) ==
    [c EXCEPT !.Deprecations = c.Deprecations \o deprecations, !.LastUpdated = t]

\* cache.Deprecations = deprecations; cache.LastUpdated = time.Now()
Refreshed(c, deprecations, t) ==
    [c EXCEPT !.Deprecations = deprecations, !.LastUpdated = t]

\* every process is at rest and no time has passed
ProcsAtRest ==
    /\ now = StartNow
    /\ pc = [p \in Procs |-> "idle"]
    /\ op = [p \in Procs |-> "none"]
    /\ cache = [p \in Procs |-> EmptyCache]
    /\ data = [p \in Procs |-> <<>>]
    /\ off = [p \in Procs |-> 0]
    /\ fd = [p \in Procs |-> "none"]
    /\ ret = [p \in Procs |-> "none"]
    /\ found = [p \in Procs |-> <<>>]
    /\ fetches = [p \in Procs |-> 0]
    /\ saves = [p \in Procs |-> 0]
    /\ answer = [p \in Procs |-> NoAnswer]
    /\ scanned = [p \in Procs |-> <<>>]
    /\ before = [p \in Procs |-> EmptyCache]

Init ==
    /\ ProcsAtRest
    /\ file = NoFile
    /\ code = [p \in Procs |-> <<>>]
    /\ source = World({}, "status", {}, "status")
    /\ fsd = NoScan

\* the first statement of a refresh: cache, err := d.cacheService.Load()
LoadForRefresh(p, o) ==
    /\ pc[p] = "idle"
    /\ \E readFails \in BOOLEAN :
        LET r == Load(file, readFails)
        IN  /\ op' = Set(op, p, o)
            /\ IF r.err # "nil"
               THEN /\ pc' = Set(pc, p, "done")
                    /\ ret' = Set(ret, p, r.err)
                    /\ cache' = cache
               ELSE /\ pc' = Set(pc, p, "loaded")
                    /\ ret' = ret
                    /\ cache' = Set(cache, p, r.cache)
    /\ UNCHANGED <<now, file, data, off, fd, code, found, fetches, saves,
                   answer, scanned, before, source, fsd>>

\* DeprecationService.UpdateCache: the Load
UpdateCacheLoad(p) == LoadForRefresh(p, "UpdateCache")

\* DeprecationService.UpdateCache: the gate, the fetch of the releases, the
\* extraction and the new timestamp
UpdateCacheFetch(p) ==
    /\ pc[p] = "loaded"
    /\ op[p] = "UpdateCache"
    /\ IF Fresh(cache[p])
       THEN /\ pc' = Set(pc, p, "done")
            /\ ret' = Set(ret, p, "nil")
            /\ UNCHANGED <<cache, fetches, answer, scanned>>
       ELSE \E resp \in ReleaseResponses, order \in MapOrders :
            LET r == FetchReleases(resp)
                deprecations ==
                    ExtractDeprecationsFromReleaseNotes(r.releases, order, now)
            IN  /\ fetches' = Set(fetches, p, fetches[p] + 1)
                /\ answer' = Set(answer, p, resp)
                /\ IF FetchFailed(r)
                   THEN /\ pc' = Set(pc, p, "done")
                        /\ ret' = Set(ret, p, r.err)
                        /\ UNCHANGED <<cache, scanned>>
                   ELSE /\ pc' = Set(pc, p, "save")
                        /\ ret' = ret
                        /\ scanned' = Set(scanned, p,
                                          ExtractFromReleases(r.releases, now))
                        /\ cache' = Set(cache, p,
                                        Refreshed(cache[p], deprecations, now))
    /\ UNCHANGED <<now, file, op, data, off, fd, code, found, saves, before,
                   source, fsd>>

\* UpdateCacheWithProgress: the Load
UpdateCacheWithProgressLoad(p) == LoadForRefresh(p, "UpdateCacheWithProgress")

\* UpdateCacheWithProgress: the gate, the scan of the source prefixes, the
\* aggregation with the known-pattern table and the new timestamp
UpdateCacheWithProgressScan(p) ==
    /\ pc[p] = "loaded"
    /\ op[p] = "UpdateCacheWithProgress"
    /\ IF Fresh(cache[p])
       THEN /\ pc' = Set(pc, p, "done")
            /\ ret' = Set(ret, p, "nil")
            /\ UNCHANGED <<cache, fetches, scanned>>
       ELSE \E w \in SampleWorlds, order \in MapOrders :
            LET r == FetchFlutterSourceDeprecationsWithProgress(w)
            IN  /\ fetches' = Set(fetches, p, fetches[p] + Len(r.reqs))
                /\ pc' = Set(pc, p, "save")
                /\ ret' = ret
                /\ scanned' = Set(scanned, p, r.deps)
                /\ cache' = Set(cache, p,
                                Refreshed(cache[p],
                                          r.deps \o StampedPatterns(order), now))
    /\ UNCHANGED <<now, file, op, data, off, fd, code, found, saves, answer,
                   before, source, fsd>>

\* CacheService.Save: ensureCacheDir, MarshalIndent, and the open of
\* ioutil.WriteFile, which creates the file or truncates it
SaveOpen(p) ==
    /\ pc[p] = "save"
    /\ saves' = Set(saves, p, saves[p] + 1)
    /\ before' = Set(before, p, Load(file, FALSE).cache)
    /\ \E outcome \in {"ok", "mkdir", "open"} :
        IF outcome # "ok"
        THEN /\ pc' = Set(pc, p, "done")
             /\ ret' = Set(ret, p, outcome)
             /\ UNCHANGED <<file, data, off, fd>>
        ELSE /\ pc' = Set(pc, p, "write")
             /\ ret' = ret
             /\ file' = [exists |-> TRUE, bytes |-> <<>>]
             /\ data' = Set(data, p, Marshal(cache[p]))
             /\ off' = Set(off, p, 0)
             /\ fd' = Set(fd, p, "live")
    /\ UNCHANGED <<now, op, cache, code, found, fetches, answer, scanned,
                   source, fsd>>

\* the sizes of the next chunk of a write with `remaining` tokens to go
Chunks(remaining) ==
    {remaining, IF remaining < ChunkLen THEN remaining ELSE ChunkLen}

\* CacheService.Save: the write of ioutil.WriteFile, which the system may
\* perform in several chunks and which may fail, and the close
SaveWrite(p) ==
    /\ pc[p] = "write"
    /\ \E n \in Chunks(Len(data[p]) - off[p]), ok \in BOOLEAN :
        IF ~ok
        THEN /\ pc' = Set(pc, p, "done")
             /\ ret' = Set(ret, p, "write")
             /\ fd' = Set(fd, p, "none")
             /\ UNCHANGED <<file, off>>
        ELSE /\ file' = IF fd[p] = "live"
                        THEN [file EXCEPT !.bytes =
                                WriteAt(file.bytes, off[p],
                                        SubSeq(data[p], off[p] + 1, off[p] + n))]
                        ELSE file
             /\ off' = Set(off, p, off[p] + n)
             /\ IF off[p] + n = Len(data[p])
                THEN /\ pc' = Set(pc, p, "done")
                     /\ ret' = Set(ret, p, "nil")
                     /\ fd' = Set(fd, p, "none")
                ELSE UNCHANGED <<pc, ret, fd>>
    /\ UNCHANGED <<now, op, cache, data, code, found, fetches, saves, answer,
                   scanned, before, source, fsd>>

\* a faulty check: a stale cache is refreshed and saved before pass (b)
CheckRefreshing(p) ==
    /\ pc[p] = "idle"
    /\ \E snippet \in TestSnippets, order \in MapOrders :
        LET loaded == Load(file, FALSE)
            stale == ~Fresh(loaded.cache)
            fresher == Refreshed(loaded.cache, StampedPatterns(order), now)
        IN  /\ code' = Set(code, p, snippet)
            /\ fetches' = Set(fetches, p, IF stale THEN 1 ELSE 0)
            /\ saves' = Set(saves, p, IF stale THEN 1 ELSE 0)
            /\ file' = IF stale
                       THEN [exists |-> TRUE, bytes |-> Marshal(fresher)]
                       ELSE file
            /\ found' = Set(found, p,
                            CheckCodeForDeprecations(snippet, Load(file', FALSE), order))
    /\ op' = Set(op, p, "Check")
    /\ pc' = Set(pc, p, "done")
    /\ ret' = Set(ret, p, "nil")
    /\ UNCHANGED <<now, cache, data, off, fd, answer, scanned, before, source, fsd>>

\* DeprecationService.CheckCodeForDeprecations(code)
Check(p) ==
    /\ pc[p] = "idle"
    /\ \E snippet \in TestSnippets, order \in MapOrders, readFails \in BOOLEAN :
        /\ code' = Set(code, p, snippet)
        /\ found' = Set(found, p,
                        CheckCodeForDeprecations(snippet, Load(file, readFails), order))
    /\ op' = Set(op, p, "Check")
    /\ pc' = Set(pc, p, "done")
    /\ ret' = Set(ret, p, "nil")
    /\ UNCHANGED <<now, file, cache, data, off, fd, fetches, saves, answer,
                   scanned, before, source, fsd>>

\* MCPHandlers.ListFlutterDeprecations: the Load (the text of the response
\* is not modelled)
List(p) ==
    /\ pc[p] = "idle"
    /\ \E readFails \in BOOLEAN :
        LET r == Load(file, readFails)
        IN  /\ cache' = Set(cache, p, r.cache)
            /\ ret' = Set(ret, p, r.err)
    /\ op' = Set(op, p, "List")
    /\ pc' = Set(pc, p, "done")
    /\ UNCHANGED <<now, file, data, off, fd, code, found, fetches, saves,
                   answer, scanned, before, source, fsd>>

\* CacheService.Clear: deletes the cache file; a descriptor that is open
\* on it keeps the unlinked file
Clear(p) ==
    /\ pc[p] = "idle"
    /\ file' = NoFile
    /\ fd' = [q \in Procs |-> IF fd[q] = "live" THEN "orphan" ELSE fd[q]]
    /\ op' = Set(op, p, "Clear")
    /\ pc' = Set(pc, p, "done")
    /\ ret' = Set(ret, p, "nil")
    /\ UNCHANGED <<now, cache, data, off, code, found, fetches, saves, answer,
                   scanned, before, source, fsd>>

\* the operation returns to its caller
Return(p) ==
    /\ pc[p] = "done"
    /\ pc' = Set(pc, p, "idle")
    /\ op' = Set(op, p, "none")
    /\ cache' = Set(cache, p, EmptyCache)
    /\ data' = Set(data, p, <<>>)
    /\ off' = Set(off, p, 0)
    /\ ret' = Set(ret, p, "none")
    /\ code' = Set(code, p, <<>>)
    /\ found' = Set(found, p, <<>>)
    /\ fetches' = Set(fetches, p, 0)
    /\ saves' = Set(saves, p, 0)
    /\ answer' = Set(answer, p, NoAnswer)
    /\ scanned' = Set(scanned, p, <<>>)
    /\ before' = Set(before, p, EmptyCache)
    /\ UNCHANGED <<now, file, fd, source, fsd>>

\* time passes
Tick ==
    /\ \E d \in TickSteps :
        /\ now + d <= StartNow + MaxElapsed
        /\ now' = now + d
    /\ UNCHANGED <<file, pc, op, cache, data, off, fd, ret, code, found,
                   fetches, saves, answer, scanned, before, source, fsd>>

Next ==
    \/ UpdateCacheLoad(Server)
    \/ UpdateCacheFetch(Server)
    \/ Check(Server)
    \/ List(Server)
    \/ UpdateCacheWithProgressLoad(Cli)
    \/ UpdateCacheWithProgressScan(Cli)
    \/ Clear(Cli)
    \/ \E p \in Procs :
        \/ SaveOpen(p)
        \/ SaveWrite(p)
        \/ Return(p)
    \/ Tick

Spec == Init /\ [][Next]_vars

\* ------------------------------------------------------------------------
\* Properties of the refresh
\* ------------------------------------------------------------------------
\* C1: Refresh is idempotent within the TTL.  A call of UpdateCache that
\* loads a cache younger than 24 hours (one that an earlier refresh
\* persisted) performs no fetch, calls Save zero times, returns success and
\* leaves the bytes of the cache file as they are, in its Load and in its
\* gate alike.
C1_IdempotentWithinTTL ==
    [][\A p \in Procs :
        /\ (pc[p] = "idle" /\ op'[p] = "UpdateCache")
            => (file' = file /\ fetches'[p] = 0 /\ saves'[p] = 0)
        /\ (/\ pc[p] = "loaded"
            /\ op[p] = "UpdateCache"
            /\ pc'[p] # "loaded"
            /\ now - cache[p].LastUpdated < CACHE_DURATION)
            => (/\ pc'[p] = "done"
                /\ ret'[p] = "nil"
                /\ fetches'[p] = 0
                /\ saves'[p] = 0
                /\ file' = file)]_vars

\* UpdateCache has returned from a cache that a refresh persisted less than
\* 24 hours before, and the file still holds that cache
C1_Witness ==
    /\ pc[Server] = "done"
    /\ op[Server] = "UpdateCache"
    /\ ret[Server] = "nil"
    /\ fetches[Server] = 0
    /\ saves[Server] = 0
    /\ cache[Server].LastUpdated >= StartNow
    /\ now - cache[Server].LastUpdated < CACHE_DURATION
    /\ file.exists
    /\ file.bytes = Marshal(cache[Server])

\* C2: Staleness gate.  UpdateCache performs at least one fetch exactly
\* when the age of the loaded cache, now - LastUpdated, is not less than 24
\* hours (the zero timestamp of a never-saved cache included); when the age
\* is less it performs no fetch and returns success with the cache and the
\* file unchanged.
C2_StalenessGate ==
    [][\A p \in Procs :
        (pc[p] = "loaded" /\ op[p] = "UpdateCache" /\ pc'[p] # "loaded")
        => /\ (fetches'[p] >= 1) <=> (now - cache[p].LastUpdated >= CACHE_DURATION)
           /\ (now - cache[p].LastUpdated < CACHE_DURATION)
                => (/\ pc'[p] = "done"
                    /\ ret'[p] = "nil"
                    /\ cache'[p] = cache[p]
                    /\ file' = file)]_vars

\* UpdateCache has fetched on a persisted cache of exactly 24 hours
C2_Witness ==
    /\ pc[Server] = "done"
    /\ op[Server] = "UpdateCache"
    /\ fetches[Server] = 1
    /\ cache[Server].LastUpdated >= StartNow
    /\ now - cache[Server].LastUpdated = CACHE_DURATION

\* C3: A refresh started on a stale cache reaches Persisted.  When the
\* cache loads, the release endpoint answers with status 200 and a
\* well-formed body, and Save does not fail, UpdateCache returns success
\* and a following Load returns a cache whose LastUpdated is the time of
\* that refresh.
C3_StaleRefreshPersists ==
    \A p \in Procs :
        (/\ pc[p] = "done"
         /\ op[p] = "UpdateCache"
         /\ fetches[p] >= 1
         /\ answer[p].net = "ok"
         /\ answer[p].status = 200
         /\ answer[p].readOK
         /\ answer[p].body.kind = "releases"
         /\ ret[p] \notin {"mkdir", "open", "write"})
        => (/\ ret[p] = "nil"
            /\ saves[p] = 1
            /\ Load(file, FALSE).cache.LastUpdated = cache[p].LastUpdated)

\* C4: Across any sequence of operations (refresh, check, list, load, save
\* by refresh, clear) the LastUpdated of the persisted cache, as a Load
\* observes it, never moves backward, and it changes only in the step in
\* which the Save of a refresh succeeds.
C4_LastUpdatedMonotone ==
    [][LET seen == Load(file, FALSE).cache.LastUpdated
           seenNext == Load(file', FALSE).cache.LastUpdated
       IN  /\ seenNext >= seen
           /\ seenNext # seen
                => \E p \in Procs :
                    /\ op[p] \in {"UpdateCache", "UpdateCacheWithProgress"}
                    /\ pc[p] = "write"
                    /\ pc'[p] = "done"
                    /\ ret'[p] = "nil"]_vars

\* C5: A successful refresh entirely replaces the cache.  When the Save of
\* a refresh completes, the persisted Deprecations are exactly the records
\* that refresh produced (the extracted records followed by the entries of
\* the known-pattern table), its LastUpdated is the time of the refresh,
\* and no entry of the cache persisted before survives unless the refresh
\* produced it again.
C5_RefreshReplaces ==
    [][\A p \in Procs :
        (pc[p] = "write" /\ pc'[p] = "done" /\ ret'[p] = "nil")
        => LET persisted == Load(file', FALSE).cache
               old == before[p].Deprecations
           IN  /\ persisted.LastUpdated = cache[p].LastUpdated
               /\ \E order \in MapOrders :
                    persisted.Deprecations = scanned[p] \o StampedPatterns(order)
               /\ \A i \in 1..Len(old) :
                    (\E j \in 1..Len(persisted.Deprecations) :
                        persisted.Deprecations[j] = old[i])
                    => \/ \E j \in 1..Len(scanned[p]) : scanned[p][j] = old[i]
                       \/ \E order \in MapOrders :
                            \E j \in 1..Len(StampedPatterns(order)) :
                                StampedPatterns(order)[j] = old[i]]_vars

\* a refresh has replaced a persisted cache that held a scanned record by
\* one that does not hold it
C5_Witness ==
    /\ pc[Cli] = "done"
    /\ op[Cli] = "UpdateCacheWithProgress"
    /\ ret[Cli] = "nil"
    /\ saves[Cli] = 1
    /\ \E i \in 1..Len(before[Cli].Deprecations) :
        before[Cli].Deprecations[i] = WidgetBar
    /\ scanned[Cli] = <<>>
    /\ file.bytes = Marshal(cache[Cli])
    /\ Len(Load(file, FALSE).cache.Deprecations) = Len(getDeprecationPatterns)

\* C6: When the Load at the start of a refresh fails, or the fetch of the
\* releases fails, UpdateCache returns that error, calls Save zero times
\* and leaves the persisted cache as it is.
C6_FailedRefreshLeavesCache ==
    /\ [](\A p \in Procs :
            (/\ op[p] = "UpdateCache"
             /\ fetches[p] >= 1
             /\ FetchReleases(answer[p]).err # "nil")
            => (pc[p] = "done" /\ saves[p] = 0
                /\ ret[p] = FetchReleases(answer[p]).err))
    /\ [][\A p \in Procs :
            /\ (pc[p] = "idle" /\ op'[p] = "UpdateCache" /\ pc'[p] = "done")
                => (/\ ret'[p] = Load(file, TRUE).err
                    /\ ret'[p] # "nil"
                    /\ saves'[p] = 0
                    /\ file' = file)
            /\ (/\ pc[p] = "loaded"
                /\ op[p] = "UpdateCache"
                /\ fetches'[p] >= 1
                /\ FetchReleases(answer'[p]).err # "nil")
                => (/\ pc'[p] = "done"
                    /\ ret'[p] = FetchReleases(answer'[p]).err
                    /\ saves'[p] = 0
                    /\ file' = file)]_vars

\* UpdateCache has returned the error of a rate-limited fetch over a
\* persisted cache, which the file still holds
C6_Witness ==
    /\ pc[Server] = "done"
    /\ op[Server] = "UpdateCache"
    /\ fetches[Server] = 1
    /\ ret[Server] = "rate_limit"
    /\ saves[Server] = 0
    /\ cache[Server].LastUpdated >= StartNow
    /\ file.bytes = Marshal(cache[Server])

\* ------------------------------------------------------------------------
\* The scan of the sources on its own: every pattern of failures of the
\* listings and of the documents
\* ------------------------------------------------------------------------
InitFetch ==
    /\ ProcsAtRest
    /\ file = NoFile
    /\ code = [p \in Procs |-> <<>>]
    /\ source \in Worlds
    /\ fsd = NoScan

\* a call of FlutterAPIService.FetchFlutterSourceDeprecations in the world
FetchSource ==
    /\ fsd.err = "none"
    /\ fsd' = FetchFlutterSourceDeprecations(source)
    /\ UNCHANGED <<now, file, pc, op, cache, data, off, fd, ret, code, found,
                   fetches, saves, answer, scanned, before, source>>

NextFetch == FetchSource

SpecFetch == InitFetch /\ [][NextFetch]_vars

\* C7: Failures are isolated to the failing unit.  For every pattern of
\* listing failures and document failures over the list of prefixes,
\* FetchFlutterSourceDeprecations returns a nil error, requests every
\* listing and every Dart document of a listing that did not fail, and
\* returns exactly the concatenation, in prefix order then document order,
\* of the records of the units that did not fail.
C7_FailureIsolation ==
    fsd.err # "none" =>
        LET listingOK(d) ==
                /\ source.listing[d].net = "ok"
                /\ source.listing[d].status = 200
                /\ source.listing[d].readOK
                /\ source.listing[d].body.kind = "files"
            docOK(u) == source.doc[u].net = "ok" /\ source.doc[u].status = 200
            dartFiles(d) ==
                SelectSeq(source.listing[d].body.files,
                          LAMBDA e : e.Type = "file" /\ HasDartSuffix(e.Name))
            urls(d) ==
                [j \in 1..Len(dartFiles(d)) |-> DocURL(d, dartFiles(d)[j].Name)]
            records(d) ==
                Flatten([j \in 1..Len(urls(d)) |->
                            IF docOK(urls(d)[j]) THEN source.doc[urls(d)[j]].scan
                            ELSE <<>>])
        IN  /\ fsd.err = "nil"
            /\ fsd.deps =
                Flatten([i \in 1..Len(directories) |->
                            IF listingOK(directories[i])
                            THEN records(directories[i]) ELSE <<>>])
            /\ fsd.reqs =
                Flatten([i \in 1..Len(directories) |->
                            <<ListingURL(directories[i])>>
                            \o (IF listingOK(directories[i])
                                THEN urls(directories[i]) ELSE <<>>)])

\* the scan has returned the records of the one document that was served,
\* the listing of material/ and the document a.dart having failed
C7_Witness ==
    /\ fsd.err = "nil"
    /\ source.listing["material/"].status # 200
    /\ source.listing["widgets/"].status = 200
    /\ source.doc[DocA].status # 200
    /\ source.doc[DocB].status = 200
    /\ fsd.deps = <<OldThing, WidgetBar>>

\* C8: Save writes atomically.  While a Save is under way, a Load by any
\* other operation returns the complete cache persisted before or the
\* complete new cache, never an empty or partly written one.
C8_SaveAtomic ==
    \A p \in Procs :
        pc[p] = "write"
        => Load(file, FALSE).cache \in {before[p], cache[p]}

\* ------------------------------------------------------------------------
\* The code matcher on its own: snippets put together from fragments,
\* checked against every kind of cache file
\* ------------------------------------------------------------------------
\* uses of the table's APIs, near misses of them, and other text
Fragments ==
    {<<"Color", ".", "red", ".", "withOpacity", "(", "0", ".", "5", ")">>,
     <<"Color", ".", "withOpacity", "(", ")">>,
     <<"RaisedButton">>,
     <<"FlatButton">>,
     <<"OutlineButton">>,
     <<"ElevatedButton">>,
     <<"Scaffold", ".", "of", "(", "context", ")", ".", "showSnackBar">>,
     <<"Scaffold", ".", "of", "(", "ctx", ")", ".", "showSnackBar">>,
     <<"FloatingActionButton", "(", "child", ":">>,
     <<"Widget", ".", "bar">>,
     <<" ">>}

\* the concatenations of n fragments
RECURSIVE Joined(_)
Joined(n) ==
    IF n = 0 THEN {<<>>}
    ELSE {f \o rest : f \in Fragments, rest \in Joined(n - 1)}

Snippets == UNION {Joined(n) : n \in 0..MaxParts}

\* a cache as a refresh persists it
PersistedCache(order) ==
    DeprecationCache(StartNow, <<WidgetBar>> \o StampedPatterns(order))

\* the cache file absent, holding a persisted cache, truncated by the open
\* of a Save, and holding the first chunk of a Save
CacheFiles ==
    {NoFile, [exists |-> TRUE, bytes |-> <<>>]}
    \cup {[exists |-> TRUE, bytes |-> Marshal(PersistedCache(order))] :
            order \in MapOrders}
    \cup {[exists |-> TRUE,
           bytes |-> SubSeq(Marshal(PersistedCache(order)), 1, ChunkLen)] :
            order \in MapOrders}

InitCheck ==
    /\ ProcsAtRest
    /\ file \in CacheFiles
    /\ code \in [Procs -> Snippets]
    /\ code[Cli] = <<>>
    /\ source = World({}, "status", {}, "status")
    /\ fsd = NoScan

\* DeprecationService.CheckCodeForDeprecations on the snippet drawn
CheckGiven(p) ==
    /\ pc[p] = "idle"
    /\ \E order \in MapOrders, readFails \in BOOLEAN :
        found' = Set(found, p,
                     CheckCodeForDeprecations(code[p], Load(file, readFails), order))
    /\ op' = Set(op, p, "Check")
    /\ pc' = Set(pc, p, "done")
    /\ ret' = Set(ret, p, "nil")
    /\ UNCHANGED <<now, file, cache, data, off, fd, code, fetches, saves,
                   answer, scanned, before, source, fsd>>

NextCheck == CheckGiven(Server)

SpecCheck == InitCheck /\ [][NextCheck]_vars

\* C9: For every snippet S and every entry P of the known-pattern table,
\* if P's regular expression matches anywhere in S, the result of
\* CheckCodeForDeprecations(S) contains P's record at least once, whatever
\* the cache file holds (absent, empty, populated, unreadable).
C9_KnownPatternsFound ==
    \A p \in Procs :
        (pc[p] = "done" /\ op[p] = "Check")
        => \A i \in 1..Len(getDeprecationPatterns) :
            MatchString(getDeprecationPatterns[i].regex, code[p])
            => \E j \in 1..Len(found[p]) :
                found[p][j] = getDeprecationPatterns[i].dep

\* a check of a snippet using RaisedButton and FlatButton has returned
\* the two entries alone, over a populated cache file that could not be read
C9_Witness ==
    /\ pc[Server] = "done"
    /\ op[Server] = "Check"
    /\ code[Server] = <<"RaisedButton", "FlatButton">>
    /\ file.exists
    /\ WellFormed(file.bytes)
    /\ Len(found[Server]) = 2
    /\ \E j \in 1..2 : found[Server][j] = RaisedEntry
    /\ \E j \in 1..2 : found[Server][j] = FlatEntry

\* C10: CheckCodeForDeprecations returns exactly one record for each known
\* deprecated API the snippet uses: 1 for a snippet using only
\* RaisedButton, 2 for one using RaisedButton and FlatButton, 1 for
\* Scaffold.of(context).showSnackBar and 0 for one using only
\* ElevatedButton, in every reachable state of the cache, a cache into
\* which a refresh has persisted the table included.
C10_ExactCounts ==
    \A p \in Procs :
        (pc[p] = "done" /\ op[p] = "Check")
        => /\ code[p] = SnippetRaised => Len(found[p]) = 1
           /\ code[p] = SnippetBoth => Len(found[p]) = 2
           /\ code[p] = SnippetScaffold => Len(found[p]) = 1
           /\ code[p] = SnippetElevated => Len(found[p]) = 0

\* C11: Matching never triggers a refresh and never writes.  A call of
\* CheckCodeForDeprecations performs no fetch and no Save and leaves the
\* cache file, and so the LastUpdated and the Deprecations a Load returns,
\* as they are, whatever the age of the cache.
C11_CheckFrame ==
    [][\A p \in Procs :
        (pc[p] = "idle" /\ op'[p] = "Check")
        => (/\ fetches'[p] = 0
            /\ saves'[p] = 0
            /\ file' = file
            /\ Load(file', FALSE).cache = Load(file, FALSE).cache
            /\ now' = now)]_vars

\* a check has returned over a persisted cache of 24 hours or more, which
\* the file still holds
C11_Witness ==
    /\ pc[Server] = "done"
    /\ op[Server] = "Check"
    /\ pc[Cli] = "idle"
    /\ fetches[Server] = 0
    /\ saves[Server] = 0
    /\ WellFormed(file.bytes)
    /\ Load(file, FALSE).cache.LastUpdated >= StartNow
    /\ now - Load(file, FALSE).cache.LastUpdated >= CACHE_DURATION
    /\ Len(found[Server]) = 2

\* C12: Load returns an empty cache (no entries, zero LastUpdated) and no
\* error both when no cache file exists and when its content does not
\* parse (a file truncated or partly written by a Save); it returns an
\* error only when an existing file cannot be read.
C12_LoadSwallowsParseFailure ==
    /\ [](/\ ~file.exists
             => \A readFails \in BOOLEAN :
                 Load(file, readFails) = [err |-> "nil", cache |-> EmptyCache]
          /\ (file.exists /\ Unmarshal(file.bytes).err # "nil")
             => Load(file, FALSE) = [err |-> "nil", cache |-> EmptyCache]
          /\ (\E p \in Procs :
                pc[p] = "write" /\ fd[p] = "live" /\ off[p] < Len(data[p]))
             => Load(file, FALSE) = [err |-> "nil", cache |-> EmptyCache]
          /\ \A readFails \in BOOLEAN :
                (Load(file, readFails).err # "nil") <=> (file.exists /\ readFails))
    /\ [][\A p \in Procs :
            (pc[p] = "idle" /\ op'[p] = "List")
            => /\ (~file.exists \/ ~WellFormed(file.bytes))
                    => \/ ret'[p] = "nil" /\ cache'[p] = EmptyCache
                       \/ ret'[p] = "read" /\ file.exists
               /\ ret'[p] # "nil" => file.exists]_vars

\* a listing has loaded an empty cache, without error, from a file that a
\* Save has written in part
C12_Witness ==
    /\ pc[Server] = "done"
    /\ op[Server] = "List"
    /\ ret[Server] = "nil"
    /\ cache[Server] = EmptyCache
    /\ pc[Cli] = "write"
    /\ off[Cli] > 0
    /\ off[Cli] < Len(data[Cli])
    /\ file.bytes = SubSeq(data[Cli], 1, off[Cli])

\* ------------------------------------------------------------------------
\* The cache store on its own: a Save of a given cache value, then a Load
\* by another process
\* ------------------------------------------------------------------------
\* a record as the scan of a document yields it when the description of
\* the annotation holds a byte that is no valid UTF-8
BadBytes ==
    Deprecation(<<"Widget", ".", "baz">>, <<>>, <<>>,
                <<"Do not use", InvalidByte>>, <<>>)

SampleDeprecations ==
    {WidgetBar, OldThing, RaisedEntry, StampedPatterns(Rotation(0))[1], BadBytes}

RECURSIVE SeqsUpTo(_, _)
SeqsUpTo(S, n) ==
    IF n = 0 THEN {<<>>}
    ELSE SeqsUpTo(S, n - 1)
         \cup {<<x>> \o t : x \in S, t \in SeqsUpTo(S, n - 1)}

CacheValues ==
    {DeprecationCache(t, deps) :
        t \in {ZeroTime, StartNow, StartNow + 1},
        deps \in SeqsUpTo(SampleDeprecations, MaxDeps)}

\* the server is about to save a cache value; the cache file is absent
\* (as when the cache directory does not exist yet) or holds an older cache
InitRoundTrip ==
    /\ now = StartNow
    /\ pc = [p \in Procs |-> IF p = Server THEN "save" ELSE "idle"]
    /\ op = [p \in Procs |-> IF p = Server THEN "Save" ELSE "none"]
    /\ cache \in [Procs -> CacheValues]
    /\ cache[Cli] = EmptyCache
    /\ file \in {NoFile,
                 [exists |-> TRUE, bytes |-> Marshal(PersistedCache(Rotation(0)))]}
    /\ data = [p \in Procs |-> <<>>]
    /\ off = [p \in Procs |-> 0]
    /\ fd = [p \in Procs |-> "none"]
    /\ ret = [p \in Procs |-> "none"]
    /\ code = [p \in Procs |-> <<>>]
    /\ found = [p \in Procs |-> <<>>]
    /\ fetches = [p \in Procs |-> 0]
    /\ saves = [p \in Procs |-> 0]
    /\ answer = [p \in Procs |-> NoAnswer]
    /\ scanned = [p \in Procs |-> <<>>]
    /\ before = [p \in Procs |-> EmptyCache]
    /\ source = World({}, "status", {}, "status")
    /\ fsd = NoScan

NextRoundTrip ==
    \/ SaveOpen(Server)
    \/ SaveWrite(Server)
    \/ List(Cli)
    \/ Return(Cli)

SpecRoundTrip == InitRoundTrip /\ [][NextRoundTrip]_vars

\* C13: Round trip.  For every cache value c, the cache file absent before
\* or not, a successful Save(c) followed by a Load with no write in between
\* returns a cache equal to c: the same entries in the same order with the
\* same API, Replacement, Version, Description and Example, and the same
\* LastUpdated.
C13_RoundTrip ==
    [][(/\ pc[Server] = "done"
        /\ ret[Server] = "nil"
        /\ pc[Cli] = "idle"
        /\ op'[Cli] = "List"
        /\ ret'[Cli] = "nil")
       => cache'[Cli] = cache[Server]]_vars

\* C13, as the code has it: a successful Save(c) followed by a Load with
\* no write in between returns c with every byte of its strings that is no
\* valid UTF-8 replaced by the replacement rune, entries and order kept and
\* LastUpdated the same; so it returns a cache equal to c whenever the
\* strings of c are valid UTF-8.
C13_RoundTripUpToUTF8 ==
    [][(/\ pc[Server] = "done"
        /\ ret[Server] = "nil"
        /\ pc[Cli] = "idle"
        /\ op'[Cli] = "List"
        /\ ret'[Cli] = "nil")
       => LET c == cache[Server]
              valid(str) == \A i \in 1..Len(str) : str[i] # InvalidByte
              coerced(d) ==
                  Deprecation(ToValidUTF8(d.API), ToValidUTF8(d.Replacement),
                              ToValidUTF8(d.Version), ToValidUTF8(d.Description),
                              ToValidUTF8(d.Example))
          IN  /\ cache'[Cli].LastUpdated = c.LastUpdated
              /\ cache'[Cli].Deprecations =
                    [i \in 1..Len(c.Deprecations) |-> coerced(c.Deprecations[i])]
              /\ (\A i \in 1..Len(c.Deprecations) :
                    /\ valid(c.Deprecations[i].API)
                    /\ valid(c.Deprecations[i].Replacement)
                    /\ valid(c.Deprecations[i].Version)
                    /\ valid(c.Deprecations[i].Description)
                    /\ valid(c.Deprecations[i].Example))
                 => cache'[Cli] = c]_vars

\* a Load has returned the cache of two entries, one with an example and
\* one without, that a Save wrote where no cache file was
C13_Witness ==
    /\ pc[Server] = "done"
    /\ ret[Server] = "nil"
    /\ before[Server] = EmptyCache
    /\ pc[Cli] = "done"
    /\ op[Cli] = "List"
    /\ ret[Cli] = "nil"
    /\ cache[Cli] = cache[Server]
    /\ cache[Server] = DeprecationCache(StartNow + 1, <<RaisedEntry, WidgetBar>>)

\* C14: Clear resets the cache to empty.  After a Clear a Load returns a
\* cache with no entries and the zero LastUpdated, and no error; pass (b)
\* of the code matcher matches nothing; and a refresh that loads this
\* cache is not short-circuited by the TTL.
C14_ClearResets ==
    [][\A p \in Procs :
        /\ (pc[p] = "idle" /\ op'[p] = "Clear" /\ ret'[p] = "nil")
            => /\ \A readFails \in BOOLEAN :
                    Load(file', readFails) = [err |-> "nil", cache |-> EmptyCache]
               /\ \A snippet \in TestSnippets :
                    MatchCached(snippet, Load(file', FALSE)) = <<>>
               /\ now - Load(file', FALSE).cache.LastUpdated >= CACHE_DURATION
        /\ (/\ pc[p] = "loaded"
            /\ pc'[p] # "loaded"
            /\ cache[p] = EmptyCache)
            => (fetches'[p] >= 1 /\ pc'[p] # "idle")]_vars

\* the cache file that a listing found populated and younger than 24
\* hours has been cleared
C14_Witness ==
    /\ pc[Cli] = "done"
    /\ op[Cli] = "Clear"
    /\ ret[Cli] = "nil"
    /\ ~file.exists
    /\ pc[Server] = "done"
    /\ op[Server] = "List"
    /\ Len(cache[Server].Deprecations) > 0
    /\ now - cache[Server].LastUpdated < CACHE_DURATION

\* ------------------------------------------------------------------------
\* The scanner of a document (internal/services/flutter_api.go)
\* ------------------------------------------------------------------------
\* A line of a document and the description of a marker are sequences of
\* lexemes: a lexeme is a run of whitespace (" "), one of the punctuation
\* lexemes of NonWord, or a maximal run of word characters (\w+), so that
\* no two word lexemes are adjacent.
NonWord ==
    {" ", "(", ")", "{", "}", ";", "=", "=>", ".", "<", ">", "?", "@", "'",
     "\"", "//", "/*", ",", ":", "+"}

IsWord(x) == x \notin NonWord

\* the word lexemes that end with the literal without being equal to it:
\* an expression that begins with the literal also matches inside them
EndingWith(literal) ==
    CASE literal = "get" -> {"Widget"}
      [] literal = "set" -> {"Offset"}
      [] literal = "class" -> {"subclass"}
      [] literal = "use" -> {"Because"}
      [] OTHER -> {}

\* the word lexemes that begin with the literal without being equal to it:
\* an expression that ends with the literal also matches inside them
BeginningWith(literal) ==
    CASE literal = "method" -> {"methods"}
      [] literal = "instead" -> {}
      [] OTHER -> {}

\* Regular expressions with submatches.  The result of running an
\* expression at a position is the sequence of the ways it can match, in
\* the order of preference of Go's regexp (leftmost-first): each way is the
\* position after the match and the submatches captured.
Literal(set) == [k |-> "lit", set |-> set]
LiteralEnd(set) == [k |-> "litend", set |-> set]
One(set) == [k |-> "one", set |-> set]
Word == [k |-> "word"]
AnyChars == [k |-> "any"]
Cat(xs) == [k |-> "cat", xs |-> xs]
Alt(xs) == [k |-> "alt", xs |-> xs]
Opt(x) == [k |-> "opt", x |-> x]
Star(x) == [k |-> "star", x |-> x]
Plus(x) == [k |-> "plus", x |-> x]
LazyPlus(x) == [k |-> "lazyplus", x |-> x]
Cap(n, x) == [k |-> "cap", n |-> n, x |-> x]

Way(pos, caps) == [pos |-> pos, caps |-> caps]

RECURSIVE Run(_, _, _, _, _)
RECURSIVE RunCat(_, _, _, _, _)
RECURSIVE RunAlt(_, _, _, _, _)
RECURSIVE Then(_, _, _, _, _, _)

\* the ways of the sequence ws, each continued in the given manner, where
\* ws are the ways of a match that begins at lexeme i: "cat" continues
\* with the rest arg of a concatenation, "star" and "lazy" with further
\* repetitions of arg if the way has advanced, and "cap" records the
\* lexemes matched as submatch arg.  (The ways are bound once, as the
\* element of a set, before the continuations are computed.)
ThenAll(ws, manner, arg, str, i, b) ==
    CHOOSE ways \in {Then(w, manner, arg, str, i, b) : w \in {ws}} : TRUE

\* the ways expression x matches str from lexeme i on, in a match that
\* starts at lexeme b
Run(x, str, i, b, caps) ==
    CASE x.k = "lit" ->
            IF /\ i <= Len(str)
               /\ \/ str[i] \in x.set
                  \/ i = b /\ \E literal \in x.set : str[i] \in EndingWith(literal)
            THEN <<Way(i + 1, caps)>> ELSE <<>>
      [] x.k = "litend" ->
            IF /\ i <= Len(str)
               /\ \/ str[i] \in x.set
                  \/ \E literal \in x.set : str[i] \in BeginningWith(literal)
            THEN <<Way(i + 1, caps)>> ELSE <<>>
      [] x.k = "one" ->
            IF i <= Len(str) /\ str[i] \in x.set
            THEN <<Way(i + 1, caps)>> ELSE <<>>
      [] x.k = "word" ->
            IF i <= Len(str) /\ IsWord(str[i])
            THEN <<Way(i + 1, caps)>> ELSE <<>>
      [] x.k = "any" ->
            IF i <= Len(str) THEN <<Way(i + 1, caps)>> ELSE <<>>
      [] x.k = "cat" -> RunCat(x.xs, str, i, b, caps)
      [] x.k = "alt" -> RunAlt(x.xs, str, i, b, caps)
      [] x.k = "opt" -> Run(x.x, str, i, b, caps) \o <<Way(i, caps)>>
      \* x*: as many repetitions as possible first
      [] x.k = "star" ->
            ThenAll(Run(x.x, str, i, b, caps), "star", x.x, str, i, b)
            \o <<Way(i, caps)>>
      [] x.k = "plus" ->
            ThenAll(Run(x.x, str, i, b, caps), "star", x.x, str, i - 1, b)
      \* x+?: as few repetitions as possible first
      [] x.k = "lazyplus" ->
            ThenAll(Run(x.x, str, i, b, caps), "lazy", x.x, str, i - 1, b)
      [] x.k = "cap" ->
            ThenAll(Run(x.x, str, i, b, caps), "cap", x.n, str, i, b)

RunCat(xs, str, i, b, caps) ==
    IF xs = <<>> THEN <<Way(i, caps)>>
    ELSE ThenAll(Run(Head(xs), str, i, b, caps), "cat", Tail(xs), str, i, b)

RunAlt(xs, str, i, b, caps) ==
    IF xs = <<>> THEN <<>>
    ELSE Run(Head(xs), str, i, b, caps) \o RunAlt(Tail(xs), str, i, b, caps)

Then(w, manner, arg, str, i, b) ==
    IF w = <<>> THEN <<>>
    ELSE (CASE manner = "cat" -> RunCat(arg, str, Head(w).pos, b, Head(w).caps)
            [] manner = "star" ->
                IF Head(w).pos > i
                THEN Run(Star(arg), str, Head(w).pos, b, Head(w).caps)
                ELSE <<>>
            [] manner = "lazy" ->
                IF Head(w).pos > i
                THEN <<Head(w)>>
                     \o ThenAll(Run(arg, str, Head(w).pos, b, Head(w).caps),
                                "lazy", arg, str, Head(w).pos, b)
                ELSE <<>>
            [] manner = "cap" ->
                <<Way(Head(w).pos,
                      [Head(w).caps EXCEPT ![arg] = SubSeq(str, i, Head(w).pos - 1)])>>)
         \o Then(Tail(w), manner, arg, str, i, b)

\* the submatches of an expression that did not match, and before a group
\* has taken part in a match
NoGroups == << <<>>, <<>> >>

\* regexp.FindStringSubmatch: the leftmost match, and at its start the
\* preferred way; ok is len(matches) > 0 and m[n] is matches[n]
RECURSIVE FindFrom(_, _, _)
FindFrom(re, str, b) ==
    IF b > Len(str) + 1 THEN [ok |-> FALSE, m |-> NoGroups]
    ELSE CHOOSE r \in
            {IF ws # <<>> THEN [ok |-> TRUE, m |-> Head(ws).caps]
             ELSE FindFrom(re, str, b + 1) :
             ws \in {Run(re, str, b, b, NoGroups)}} : TRUE

FindStringSubmatch(re, str) == FindFrom(re, str, 1)

\* \s+ and \s*
Space == One({" "})
OptSpace == Opt(Space)
\* [\w<>?]+
TypeChars == Plus(Alt(<<Word, One({"<", ">", "?"})>>))
\* (?:(?:static|final|const)\s+)*
Modifiers == Star(Cat(<<Literal({"static", "final", "const"}), Space>>))

\* @[Dd]eprecated\s*\(\s*['"](.+?)['"]
deprecatedPattern ==
    Cat(<<One({"@"}), Literal({"Deprecated", "deprecated"}), OptSpace, One({"("}),
          OptSpace, One({"'", "\""}), Cap(1, LazyPlus(AnyChars)),
          One({"'", "\""})>>)

\* (?:abstract\s+)?(?:class|enum|mixin)\s+(\w+)
classPattern ==
    Cat(<<Opt(Cat(<<Literal({"abstract"}), Space>>)),
          Literal({"class", "enum", "mixin"}), Space, Cap(1, Word)>>)

\* (?:(?:static|final|const)\s+)*(?:[\w<>?]+\s+)?(\w+)\s*\(
methodPattern ==
    Cat(<<Modifiers, Opt(Cat(<<TypeChars, Space>>)), Cap(1, Word), OptSpace,
          One({"("})>>)

\* (\w+)\s*\.\s*(\w+)\s*\(
constructorPattern ==
    Cat(<<Cap(1, Word), OptSpace, One({"."}), OptSpace, Cap(2, Word), OptSpace,
          One({"("})>>)

\* (?:(?:static|final|const)\s+)*(?:[\w<>?]+\s+)+(get\s+)?(\w+)(?:\s*[;=]|\s*=>)
\* ([;=] also matches the first character of the lexeme =>)
propertyPattern ==
    Cat(<<Modifiers, Plus(Cat(<<TypeChars, Space>>)),
          Opt(Cap(1, Cat(<<Literal({"get"}), Space>>))), Cap(2, Word),
          Alt(<<Cat(<<OptSpace, One({";", "=", "=>"})>>),
                Cat(<<OptSpace, One({"=>"})>>)>>)>>)

\* (?:[\w<>?]+\s+)?get\s+(\w+)\s*(?:=>|{)
getterPattern ==
    Cat(<<Opt(Cat(<<TypeChars, Space>>)), Literal({"get"}), Space, Cap(1, Word),
          OptSpace, Alt(<<One({"=>"}), One({"{"})>>)>>)

\* set\s+(\w+)\s*\(
setterPattern ==
    Cat(<<Literal({"set"}), Space, Cap(1, Word), OptSpace, One({"("})>>)

\* [A-Za-z0-9_.()]+
NameChars == Plus(Alt(<<Word, One({".", "(", ")"})>>))

\* (?i)use\s+([A-Za-z0-9_.()]+)(?:\s+instead)?
useInsteadPattern ==
    Cat(<<Literal({"use", "Use"}), Space, Cap(1, NameChars),
          Opt(Cat(<<Space, LiteralEnd({"instead", "Instead"})>>))>>)

\* (?i)replaced\s+by\s+([A-Za-z0-9_.()]+)
replacedByPattern ==
    Cat(<<Literal({"replaced", "Replaced"}), Space, Literal({"by", "By"}), Space,
          Cap(1, NameChars)>>)

\* (?i)use\s+(?:the\s+)?([A-Za-z0-9_.()]+)\s+method
useMethodPattern ==
    Cat(<<Literal({"use", "Use"}), Space, Opt(Cat(<<Literal({"the", "The"}), Space>>)),
          Cap(1, NameChars), Space, LiteralEnd({"method", "Method"})>>)

\* (?i)prefer\s+([A-Za-z0-9_.()]+)
preferPattern ==
    Cat(<<Literal({"prefer", "Prefer"}), Space, Cap(1, NameChars)>>)

\* a faulty extraction: the first pattern takes the rest of the description
extractReplacementToEnd(description) ==
    IF FindStringSubmatch(useInsteadPattern, description).ok
    THEN SubSeq(description, 3, Len(description))
    ELSE <<>>

\* FlutterAPIService.extractReplacement(description)
extractReplacement(description) ==
    IF FindStringSubmatch(useInsteadPattern, description).ok
    THEN FindStringSubmatch(useInsteadPattern, description).m[1]
    ELSE IF FindStringSubmatch(replacedByPattern, description).ok
    THEN FindStringSubmatch(replacedByPattern, description).m[1]
    ELSE IF FindStringSubmatch(useMethodPattern, description).ok
    THEN FindStringSubmatch(useMethodPattern, description).m[1]
    ELSE IF FindStringSubmatch(preferPattern, description).ok
    THEN FindStringSubmatch(preferPattern, description).m[1]
    ELSE <<>>

\* strings.ToLower of a lexeme: the lexemes not named are in lower case
LowerLexeme(x) ==
    CASE x = "Widget" -> "widget"
      [] x = "Foo" -> "foo"
      [] x = "Use" -> "use"
      [] x = "OldThing" -> "oldthing"
      [] x = "RaisedButton" -> "raisedbutton"
      [] x = "IconButton" -> "iconbutton"
      [] x = "Color" -> "color"
      [] x = "withOpacity" -> "withopacity"
      [] x = "ThemeData" -> "themedata"
      [] x = "No" -> "no"
      [] x = "Hurts" -> "hurts"
      [] OTHER -> x

ToLower(str) == [n \in 1..Len(str) |-> LowerLexeme(str[n])]

\* the keys and clues that occur inside a lower-case word lexeme without
\* being equal to it
Inside(x) ==
    CASE x = "raisedbutton" -> {"button"}
      [] x = "iconbutton" -> {"button"}
      [] x = "themedata" -> {"theme"}
      [] OTHER -> {}

\* strings.Contains(str, key) for a key given as a sequence of lexemes: a
\* key of one lexeme can lie inside a word; a longer key begins at the end
\* of a lexeme and ends at the beginning of one
ContainsKey(str, key) ==
    IF Len(key) = 1
    THEN \E n \in 1..Len(str) : str[n] = key[1] \/ key[1] \in Inside(str[n])
    ELSE \E i \in 0..(Len(str) - Len(key)) :
            /\ str[i + 1] = key[1] \/ str[i + 1] \in EndingWith(key[1])
            /\ \A n \in 2..(Len(key) - 1) : str[i + n] = key[n]
            /\ \/ str[i + Len(key)] = key[Len(key)]
               \/ str[i + Len(key)] \in BeginningWith(key[Len(key)])

\* strings.HasSuffix(str, key) for a key of one lexeme
HasSuffixKey(str, key) ==
    /\ str # <<>>
    /\ str[Len(str)] = key \/ str[Len(str)] \in EndingWith(key)

InferEntry(key, replacement) == [key |-> key, replacement |-> replacement]

\* the entries of the map literal of InferReplacement, in the order they
\* are written
inferPatterns ==
    << InferEntry(<<"withopacity">>, <<"withValues(alpha: value)">>),
       InferEntry(<<"color", ".", "withopacity">>, <<"color.withValues(alpha: value)">>),
       InferEntry(<<"raisedbutton">>, <<"ElevatedButton">>),
       InferEntry(<<"flatbutton">>, <<"TextButton">>),
       InferEntry(<<"outlinebutton">>, <<"OutlinedButton">>),
       InferEntry(<<"materialbutton">>, <<"ElevatedButton, TextButton, or OutlinedButton">>),
       InferEntry(<<"floatingactionbutton", ".", "mini">>, <<"FloatingActionButton(mini: true)">>),
       InferEntry(<<"navigator", ".", "of", "(", "context", ")", ".", "push">>,
                  <<"Navigator.push(context, route)">>),
       InferEntry(<<"navigator", ".", "of", "(", "context", ")", ".", "pop">>,
                  <<"Navigator.pop(context)">>),
       InferEntry(<<"scaffold", ".", "of", "(", "context", ")", ".", "showsnackbar">>,
                  <<"ScaffoldMessenger.of(context).showSnackBar">>),
       InferEntry(<<"text", ".", "overflow">>, <<"Text with overflow parameter">>),
       InferEntry(<<"textstyle", ".", "height">>, <<"TextStyle.height or TextHeightBehavior">>),
       InferEntry(<<"wrap", ".", "direction">>, <<"Wrap.direction parameter">>),
       InferEntry(<<"flex", ".", "direction">>, <<"Flex.direction parameter">>),
       InferEntry(<<"animationcontroller", ".", "reset">>,
                  <<"AnimationController.reset() alternative">>),
       InferEntry(<<"tween", ".", "animate">>, <<"Tween.animate() or AnimatedBuilder">>),
       InferEntry(<<"positioned", ".", "fill">>, <<"Positioned.fill() constructor">>),
       InferEntry(<<"expanded", ".", "flex">>, <<"Expanded(flex: value)">>),
       InferEntry(<<"flexible", ".", "flex">>, <<"Flexible(flex: value)">>) >>

\* the orders in which a range over the map of InferReplacement visits its
\* entries: the first NumOrders rotations
InferRotation(k) ==
    [i \in 1..Len(inferPatterns) |-> ((i + k - 1) % Len(inferPatterns)) + 1]
InferOrders == {InferRotation(k) : k \in 0..(NumOrders - 1)}

\* FlutterAPIService.InferReplacement(apiName, description), the range over
\* the map visiting it in the given order
InferReplacement(apiName, description, order) ==
    LET api == ToLower(apiName)
        desc == ToLower(description)
        visited == [i \in 1..Len(inferPatterns) |-> inferPatterns[order[i]]]
        hits == SelectSeq(visited, LAMBDA e : ContainsKey(api, e.key))
    IN  IF hits # <<>> THEN Head(hits).replacement
        ELSE IF \/ ContainsKey(desc, <<"will", " ", "lead", " ", "to", " ", "bugs">>)
                \/ ContainsKey(desc, <<"causes", " ", "issues">>)
        THEN IF ContainsKey(api, <<"jump">>) \/ ContainsKey(api, <<"scroll">>)
             THEN <<"Use ScrollController methods or ScrollPosition alternatives">>
             ELSE <<"Alternative implementation recommended - see Flutter documentation">>
        ELSE IF ContainsKey(desc, <<"performance">>)
        THEN <<"More efficient alternative available - check Flutter performance guide">>
        ELSE IF ContainsKey(desc, <<"accessibility">>)
        THEN <<"Use semantically improved alternative for better accessibility">>
        ELSE IF HasSuffixKey(api, "withoutsettling")
        THEN <<"Use standard navigation/animation methods that properly settle">>
        ELSE IF ContainsKey(api, <<"copywidth">>) \/ ContainsKey(api, <<"copyheight">>)
        THEN <<"Use copyWith() with specific dimension parameters">>
        ELSE IF ContainsKey(api, <<"button">>)
        THEN <<"Use Material 3 button alternatives (ElevatedButton, TextButton, OutlinedButton)">>
        ELSE IF ContainsKey(api, <<"color">>)
        THEN <<"Use updated Color API with values() constructor">>
        ELSE IF ContainsKey(api, <<"theme">>)
        THEN <<"Use Material 3 ThemeData with updated color scheme">>
        ELSE <<>>

\* strings.TrimSpace
RECURSIVE TrimSpace(_)
TrimSpace(line) ==
    IF line = <<>> THEN <<>>
    ELSE IF Head(line) = " " THEN TrimSpace(Tail(line))
    ELSE IF line[Len(line)] = " " THEN TrimSpace(SubSeq(line, 1, Len(line) - 1))
    ELSE line

\* the windows of the scan: how far above a marker the class is looked
\* for, and how far below it the deprecated item
LookBehind == 50
LookForward == 10

\* the names the method rule does not accept
ControlWords == {"if", "for", "while", "switch", "return", "throw"}

\* the class context of the marker at line i: the scan from line j upward
RECURSIVE LookBack(_, _, _)
LookBack(lines, j, i) ==
    IF j < 1 \/ j < i - LookBehind THEN <<>>
    ELSE LET c == FindStringSubmatch(classPattern, TrimSpace(lines[j]))
         IN  IF c.ok THEN c.m[1] ELSE LookBack(lines, j - 1, i)

Resolved(stop, name) == [stop |-> stop, name |-> name]
\* a faulty qualification: a name equal to the class name is left bare
QualifiedUnlessOwnName(className, name) ==
    IF className # <<>> /\ name # className
    THEN className \o <<".">> \o name ELSE name
Qualified(className, name) ==
    IF className # <<>> THEN className \o <<".">> \o name ELSE name

\* a faulty chain: the property rule is tried before the method rule
ResolvePropertyFirst(nextLine, className) ==
    LET class == FindStringSubmatch(classPattern, nextLine)
        constructor == FindStringSubmatch(constructorPattern, nextLine)
        getter == FindStringSubmatch(getterPattern, nextLine)
        setter == FindStringSubmatch(setterPattern, nextLine)
        method == FindStringSubmatch(methodPattern, nextLine)
        property == FindStringSubmatch(propertyPattern, nextLine)
    IN  IF class.ok THEN Resolved(TRUE, class.m[1])
        ELSE IF constructor.ok
        THEN Resolved(TRUE, constructor.m[1] \o <<".">> \o constructor.m[2])
        ELSE IF getter.ok THEN Resolved(TRUE, Qualified(className, getter.m[1]))
        ELSE IF setter.ok THEN Resolved(TRUE, Qualified(className, setter.m[1]))
        ELSE IF property.ok THEN Resolved(TRUE, Qualified(className, property.m[2]))
        ELSE IF method.ok
        THEN IF method.m[1] \notin {<<w>> : w \in ControlWords}
             THEN IF className # <<>> /\ method.m[1] # className
                  THEN Resolved(TRUE, className \o <<".">> \o method.m[1])
                  ELSE Resolved(TRUE, method.m[1])
             ELSE Resolved(FALSE, <<>>)
        ELSE Resolved(FALSE, <<>>)

\* the chain of rules tried on one line below a marker: whether the scan
\* stops at this line, and the name it stops with
Resolve(nextLine, className) ==
    LET class == FindStringSubmatch(classPattern, nextLine)
        constructor == FindStringSubmatch(constructorPattern, nextLine)
        getter == FindStringSubmatch(getterPattern, nextLine)
        setter == FindStringSubmatch(setterPattern, nextLine)
        method == FindStringSubmatch(methodPattern, nextLine)
        property == FindStringSubmatch(propertyPattern, nextLine)
    IN  IF class.ok THEN Resolved(TRUE, class.m[1])
        ELSE IF constructor.ok
        THEN Resolved(TRUE, constructor.m[1] \o <<".">> \o constructor.m[2])
        ELSE IF getter.ok THEN Resolved(TRUE, Qualified(className, getter.m[1]))
        ELSE IF setter.ok THEN Resolved(TRUE, Qualified(className, setter.m[1]))
        ELSE IF method.ok
        THEN IF method.m[1] \notin {<<w>> : w \in ControlWords}
             THEN IF className # <<>> /\ method.m[1] # className
                  THEN Resolved(TRUE, className \o <<".">> \o method.m[1])
                  ELSE Resolved(TRUE, method.m[1])
             ELSE Resolved(FALSE, <<>>)
        ELSE IF property.ok THEN Resolved(TRUE, Qualified(className, property.m[2]))
        ELSE Resolved(FALSE, <<>>)

\* a line the look-ahead passes over: empty, a comment or an annotation
Skipped(nextLine) ==
    nextLine = <<>> \/ Head(nextLine) \in {"//", "/*", "@"}

\* a faulty look-ahead: a line passed over does not count toward the window
RECURSIVE LookAheadNotCountingSkipped(_, _, _, _)
LookAheadNotCountingSkipped(lines, j, i, className) ==
    IF j > Len(lines) \/ j > i + LookForward THEN <<>>
    ELSE LET nextLine == TrimSpace(lines[j])
         IN  IF Skipped(nextLine)
             THEN LookAheadNotCountingSkipped(lines, j + 1, i + 1, className)
             ELSE IF Resolve(nextLine, className).stop
             THEN Resolve(nextLine, className).name
             ELSE LookAheadNotCountingSkipped(lines, j + 1, i, className)

\* the name of the item the marker at line i deprecates: the scan from
\* line j downward
RECURSIVE LookAhead(_, _, _, _)
LookAhead(lines, j, i, className) ==
    IF j > Len(lines) \/ j > i + LookForward THEN <<>>
    ELSE LET nextLine == TrimSpace(lines[j])
         IN  IF Skipped(nextLine) THEN LookAhead(lines, j + 1, i, className)
             ELSE IF Resolve(nextLine, className).stop
             THEN Resolve(nextLine, className).name
             ELSE LookAhead(lines, j + 1, i, className)

\* The loop over the lines of ScanFileForDeprecations from line i on.  The
\* call of InferReplacement number n + 1 visits its map in the order
\* orders[(n % Len(orders)) + 1].
RECURSIVE ScanFrom(_, _, _, _)
ScanFrom(lines, i, orders, n) ==
    IF i > Len(lines) THEN <<>>
    ELSE LET marker == FindStringSubmatch(deprecatedPattern, TrimSpace(lines[i]))
             description == marker.m[1]
             className == LookBack(lines, i - 1, i)
             apiName == LookAhead(lines, i + 1, i, className)
             replacement == extractReplacement(description)
             inferred == InferReplacement(apiName, description,
                                          orders[(n % Len(orders)) + 1])
         IN  IF ~marker.ok \/ apiName = <<>>
             THEN ScanFrom(lines, i + 1, orders, n)
             ELSE IF replacement # <<>>
             THEN <<Deprecation(apiName, replacement, <<>>, description, <<>>)>>
                  \o ScanFrom(lines, i + 1, orders, n)
             ELSE <<Deprecation(apiName, inferred, <<>>, description, <<>>)>>
                  \o ScanFrom(lines, i + 1, orders, n + 1)

\* a faulty scan: a declaration a marker has resolved is used up, and the
\* next marker that resolves to it emits nothing
RECURSIVE DropRepeated(_)
DropRepeated(deps) ==
    IF Len(deps) < 2 THEN deps
    ELSE IF deps[1].API = deps[2].API THEN DropRepeated(Tail(deps))
    ELSE <<Head(deps)>> \o DropRepeated(Tail(deps))
ScanLinesConsuming(lines, orders) == DropRepeated(ScanFrom(lines, 1, orders, 0))

\* the records ScanFileForDeprecations returns for the lines of a document
\* answered with status 200
ScanLines(lines, orders) == ScanFrom(lines, 1, orders, 0)

\* ------------------------------------------------------------------------
\* The scanner on the documents drawn
\* ------------------------------------------------------------------------
ClassLine(name) == <<"class", " ", name, " ", "{">>
MarkerLine(description) ==
    <<" ", "@", "Deprecated", "(", "'">> \o description \o <<"'", ")">>

UseFooInstead == <<"Use", " ", "Foo", " ", "instead">>
NoLongerSupported == <<"No", " ", "longer", " ", "supported">>
HurtsPerformance == <<"Hurts", " ", "performance">>
UseBarBazInstead == <<"Use", " ", "Bar", ".", "baz", "(", ")", " ", "instead">>
Descriptions == {UseFooInstead, NoLongerSupported, HurtsPerformance, UseBarBazInstead}

\* descriptions that name a method to use
UseTheFooMethod == <<"Use", " ", "the", " ", "Foo", " ", "method">>
UseFooMethod == <<"use", " ", "Foo", " ", "method">>
NamingDescriptions == Descriptions \cup {UseTheFooMethod, UseFooMethod}
\* a description that names a class
UseClassFoo == <<"Use", " ", "class", " ", "Foo">>

MethodLine == <<" ", "void", " ", "bar", "(", ")", " ", "{", "}">>
ConstructorLine == <<" ", "Widget", ".", "named", "(", ")", ";">>
GetterLine == <<" ", "int", " ", "get", " ", "size", " ", "=>", " ", "0", ";">>
SetterLine == <<" ", "set", " ", "size", "(", "int", " ", "v", ")", " ", "{", "}">>
PropertyLine == <<" ", "final", " ", "int", " ", "count", ";">>
OwnNameLine == <<" ", "Widget", "(", ")", ";">>
ControlLine == <<" ", "if", " ", "(", "x", ")", " ", "{">>
BraceLine == <<" ", "}">>
DeclLines ==
    {MethodLine, ConstructorLine, GetterLine, SetterLine, PropertyLine,
     OwnNameLine, ClassLine("OldThing"), ControlLine, BraceLine}

\* lines that have more than one of the shapes
EnumLine ==
    <<" ", "enum", " ", "Kind", " ", "{", " ", "a", "(", "1", ")", " ", "}">>
InitLine == <<" ", "final", " ", "x", " ", "=", " ", "foo", "(", ")", ";">>
ControlReturnLine ==
    <<" ", "if", " ", "(", "x", ")", " ", "return", " ", "y", ";">>
\* a getter that has the name of its class
OwnNameGetterLine ==
    <<" ", "Widget", " ", "get", " ", "Widget", " ", "=>", " ", "this", ";">>
ResolveLines ==
    DeclLines \cup {EnumLine, InitLine, ControlReturnLine, OwnNameGetterLine}

\* declarations whose names the inference knows
WithOpacityLine ==
    <<" ", "Color", " ", "withOpacity", "(", "double", " ", "o", ")", " ", "{">>
NamedLines ==
    {ClassLine("IconButton"), ClassLine("RaisedButton"), ClassLine("ThemeData"),
     WithOpacityLine}

\* the lines the look-ahead passes over
BlankLine == <<>>
CommentLine == <<" ", "//", " ", "note">>
AnnotationLine == <<" ", "@", "override">>
FillerLines == {BlankLine, CommentLine, AnnotationLine}

Repeat(line, n) == [k \in 1..n |-> line]

\* how many lines lie between the class line and the marker, and between
\* the marker and the declaration
BackGaps == {0, LookBehind - 1, LookBehind}
ForwardGaps == {0, 1, LookForward - 1, LookForward}

\* the document on one line of the scenario
OneLineDocument ==
    << <<"class", " ", "Widget", " ", "{", " ", "@", "Deprecated", "(", "'",
         "Use", " ", "Foo", " ", "instead", "'", ")", " ", "void", " ", "bar",
         "(", ")", " ", "{", "}", " ", "}">> >>

\* a document: a class line or none, a gap, a marker, a gap of lines the
\* look-ahead passes over, and a line that may declare something; two
\* markers above one line; a marker above two lines; a marker above a
\* declaration whose name the inference knows; two markers of which the
\* second has another class context than the first
Documents ==
    {OneLineDocument}
    \cup {above \o <<MarkerLine(d)>> \o Repeat(filler, k) \o <<decl>> :
            above \in {<<>>} \cup {<<ClassLine("Widget")>> \o Repeat(BlankLine, g) :
                                      g \in BackGaps},
            d \in Descriptions, filler \in FillerLines, k \in ForwardGaps,
            decl \in DeclLines}
    \cup {<<ClassLine("Widget"), MarkerLine(d1), MarkerLine(d2), decl>> :
            d1 \in Descriptions, d2 \in Descriptions, decl \in DeclLines}
    \cup {<<MarkerLine(d1), BraceLine, MarkerLine(d2), decl>> :
            d1 \in Descriptions, d2 \in Descriptions, decl \in DeclLines}
    \cup {above \o <<MarkerLine(UseFooInstead), first, second>> :
            above \in {<<>>, <<ClassLine("Widget")>>},
            first \in ResolveLines,
            second \in {MethodLine, PropertyLine, BraceLine}}
    \cup {above \o <<MarkerLine(d), decl>> :
            above \in {<<>>, <<ClassLine("Color")>>},
            d \in NamingDescriptions, decl \in NamedLines}
    \cup {<<ClassLine("Color"), MarkerLine(d1), MarkerLine(d2), WithOpacityLine>> :
            d1 \in {NoLongerSupported, HurtsPerformance},
            d2 \in {NoLongerSupported, HurtsPerformance}}
    \cup {<<ClassLine("Widget")>> \o Repeat(BlankLine, g)
            \o <<MarkerLine(d1), MarkerLine(d2), decl>> :
            g \in {LookBehind - 2, LookBehind - 1},
            d1 \in {UseFooInstead, NoLongerSupported},
            d2 \in {UseFooInstead, NoLongerSupported},
            decl \in {MethodLine, PropertyLine}}
    \cup {<<ClassLine("Widget"), MarkerLine(UseClassFoo), MarkerLine(d2), decl>> :
            d2 \in {UseFooInstead, NoLongerSupported},
            decl \in {MethodLine, PropertyLine, ClassLine("OldThing")}}

\* how many calls of InferReplacement of one scan draw their own order
MaxMarkers == 2

\* bufio.Scanner with bufio.ScanLines: a line ends the scan with
\* bufio.ErrTooLong when the buffer is full before its end is seen
TooLong(line) == CharLen(line) >= MaxScanTokenSize

\* ScanFileForDeprecations on the body of a document answered with status
\* 200: the lines are read first, and an error of the reader is returned
\* in place of the records
ScanBody(lines, orders) ==
    IF \E n \in 1..Len(lines) : TooLong(lines[n])
    THEN ScanResult("token too long", <<>>, <<>>)
    ELSE ScanResult("nil", ScanLines(lines, orders), <<>>)

InitScan ==
    /\ ProcsAtRest
    /\ file = NoFile
    /\ code = [p \in Procs |-> <<>>]
    /\ source \in Documents
    /\ fsd = NoScan

\* the scan of the lines of the document
ScanDocument ==
    /\ fsd.err = "none"
    /\ \E orders \in [1..MaxMarkers -> InferOrders] :
        fsd' = ScanBody(source, orders)
    /\ UNCHANGED <<now, file, pc, op, cache, data, off, fd, ret, code, found,
                   fetches, saves, answer, scanned, before, source>>

NextScan == ScanDocument

SpecScan == InitScan /\ [][NextScan]_vars

\* C15: A marker with no recognizable construct in its forward window
\* yields no record.  For every document and every marker line of it, if
\* none of the at most 10 lines that follow the marker is, after the blank
\* lines, comment lines and lines starting with '@' are passed over (they
\* count toward the 10), of a recognized declaration shape, then no record
\* of the scan carries the description of that marker, unless another
\* marker of the document carries the same description.
C15_NoShapeNoRecord ==
    fsd.err # "none" =>
        LET marker(i) == FindStringSubmatch(deprecatedPattern, TrimSpace(source[i]))
            shape(line) ==
                \/ FindStringSubmatch(classPattern, line).ok
                \/ FindStringSubmatch(constructorPattern, line).ok
                \/ FindStringSubmatch(getterPattern, line).ok
                \/ FindStringSubmatch(setterPattern, line).ok
                \/ /\ FindStringSubmatch(methodPattern, line).ok
                   /\ FindStringSubmatch(methodPattern, line).m[1]
                        \notin {<<w>> : w \in ControlWords}
                \/ FindStringSubmatch(propertyPattern, line).ok
            window(i) == {j \in (i + 1)..Len(source) : j <= i + 10}
            markers == {i \in 1..Len(source) : marker(i).ok}
            unresolved ==
                {i \in markers :
                    \A j \in window(i) :
                        \/ Skipped(TrimSpace(source[j]))
                        \/ ~shape(TrimSpace(source[j]))}
        IN  \A i \in unresolved :
                (\A h \in markers : marker(h).m[1] = marker(i).m[1] => h \in unresolved)
                => \A n \in 1..Len(fsd.deps) :
                        fsd.deps[n].Description # marker(i).m[1]

\* the scan of a document whose marker is followed by 10 comment lines and
\* then by the declaration of a method has returned no record
C15_Witness ==
    /\ fsd.err = "nil"
    /\ source = <<MarkerLine(UseFooInstead)>> \o Repeat(CommentLine, 10)
                    \o <<MethodLine>>
    /\ fsd.deps = <<>>

\* the record of a marker: the scanner fills API, Replacement, Description
Scanned(api, replacement, description) ==
    Deprecation(api, replacement, <<>>, description, <<>>)

\* C16 as stated: a document that contains `class Widget {`, then the
\* marker 'Use R instead', then `void bar() {}` - on one line, or on lines
\* of their own with nothing but blank lines above the marker and lines the
\* look-ahead passes over below it - yields exactly one record, with API
\* Widget.bar and Replacement R.
C16_MethodInClass ==
    fsd.err # "none" =>
        /\ source = OneLineDocument
            => fsd.deps = <<Scanned(<<"Widget", ".", "bar">>, <<"Foo">>, UseFooInstead)>>
        /\ \A r \in {<<UseFooInstead, <<"Foo">>>>,
                      <<UseBarBazInstead, <<"Bar", ".", "baz", "(", ")">>>>} :
            \A i \in {n \in 1..Len(source) : source[n] = MarkerLine(r[1])} :
                \A c \in {n \in 1..(i - 1) : source[n] = ClassLine("Widget")} :
                    \A d \in {n \in (i + 1)..Len(source) : source[n] = MethodLine} :
                        (/\ \A j \in (c + 1)..(i - 1) : source[j] = BlankLine
                         /\ \A j \in (i + 1)..(d - 1) : source[j] \in FillerLines)
                        => fsd.deps = <<Scanned(<<"Widget", ".", "bar">>, r[2], r[1])>>

\* C16 (amended): the same with the three on lines of their own, the class
\* line at most 50 lines above the marker and the declaration at most 10
\* lines below it; the document on one line yields no record.
C16_MethodInClassInWindow ==
    fsd.err # "none" =>
        /\ source = OneLineDocument => fsd.deps = <<>>
        /\ \A r \in {<<UseFooInstead, <<"Foo">>>>,
                      <<UseBarBazInstead, <<"Bar", ".", "baz", "(", ")">>>>} :
            \A i \in {n \in 1..Len(source) : source[n] = MarkerLine(r[1])} :
                \A c \in {n \in 1..(i - 1) : source[n] = ClassLine("Widget")} :
                    \A d \in {n \in (i + 1)..Len(source) : source[n] = MethodLine} :
                        (/\ i - c <= 50
                         /\ d - i <= 10
                         /\ \A j \in (c + 1)..(i - 1) : source[j] = BlankLine
                         /\ \A j \in (i + 1)..(d - 1) : source[j] \in FillerLines)
                        => fsd.deps = <<Scanned(<<"Widget", ".", "bar">>, r[2], r[1])>>

\* the scan of the scenario on three lines has returned the one record
C16_Witness ==
    /\ fsd.err = "nil"
    /\ source = <<ClassLine("Widget"), MarkerLine(UseFooInstead), MethodLine>>
    /\ fsd.deps = <<Scanned(<<"Widget", ".", "bar">>, <<"Foo">>, UseFooInstead)>>

\* ------------------------------------------------------------------------
\* The aggregation on the release lists drawn
\* ------------------------------------------------------------------------
\* a release whose date does not parse, and a recent one without matches
UndatedRelease ==
    FlutterRelease(<<"v", "3.30.0">>, InvalidDate,
        <<<<Submatch(<<"FlatButton">>, <<"TextButton">>)>>, <<>>, <<>>>>,
        FALSE)
QuietRelease ==
    FlutterRelease(<<"v", "3.31.0">>, StartNow - 100, <<<<>>, <<>>, <<>>>>, TRUE)

\* a release list holds at most MaxReleases releases
MaxReleases == 3

ReleaseLists ==
    SeqsUpTo({RecentRelease, OldRelease, UndatedRelease, QuietRelease}, MaxReleases)

InitExtract == Init

\* a call of ExtractDeprecationsFromReleaseNotes with a release list
ExtractGiven(p) ==
    /\ pc[p] = "idle"
    /\ \E releases \in ReleaseLists, order \in MapOrders :
        /\ answer' = Set(answer, p, Response("ok", 200, ReleasesBody(releases), TRUE))
        /\ scanned' = Set(scanned, p,
                          ExtractDeprecationsFromReleaseNotes(releases, order, now))
    /\ op' = Set(op, p, "Extract")
    /\ pc' = Set(pc, p, "done")
    /\ UNCHANGED <<now, file, cache, data, off, fd, ret, code, found, fetches,
                   saves, before, source, fsd>>

NextExtract == ExtractGiven(Server)

SpecExtract == InitExtract /\ [][NextExtract]_vars

\* C17: The aggregate always holds the whole known-pattern table.  For
\* every release list (empty, too old, undated, without matches, or with
\* matches) the result of ExtractDeprecationsFromReleaseNotes holds, for
\* each of the 6 entries of the table, a copy of it with Version "Multiple
\* versions", and no other record with that Version; the entries of the
\* table keep their empty Version.
C17_TableAlwaysAggregated ==
    \A p \in Procs :
        (pc[p] = "done" /\ op[p] = "Extract")
        => /\ Len(getDeprecationPatterns) = 6
           /\ \A i \in 1..Len(getDeprecationPatterns) :
                /\ getDeprecationPatterns[i].dep.Version = <<>>
                /\ Cardinality({j \in 1..Len(scanned[p]) :
                        scanned[p][j] =
                            [getDeprecationPatterns[i].dep
                                EXCEPT !.Version = <<"Multiple versions">>]}) = 1
           /\ Cardinality({j \in 1..Len(scanned[p]) :
                    scanned[p][j].Version = <<"Multiple versions">>}) = 6
           /\ \E j \in 1..Len(scanned[p]) : scanned[p][j].API = <<"Color", ".", "withOpacity">>
           /\ \E j \in 1..Len(scanned[p]) : scanned[p][j].API = <<"RaisedButton">>

\* the aggregation of a list of one release that is too old has returned
\* the six stamped entries alone
C17_Witness ==
    /\ pc[Server] = "done"
    /\ op[Server] = "Extract"
    /\ answer[Server].body.releases = <<OldRelease>>
    /\ Len(scanned[Server]) = 6


\* ------------------------------------------------------------------------
\* The tools of the running server and the age of the cache
\* ------------------------------------------------------------------------
\* C18: The cache is updated every 24 hours when tools are used.  When the
\* check_flutter_deprecations or the list_flutter_deprecations tool is
\* invoked on the running server while the persisted cache is 24 hours old
\* or older, a cache update is performed: the invocation fetches, saves, or
\* leaves a refresh under way.
C18_ToolsRefreshStaleCache ==
    [][(/\ pc[Server] = "idle"
        /\ op'[Server] \in {"Check", "List"}
        /\ WellFormed(file.bytes)
        /\ Load(file, FALSE).cache.LastUpdated >= StartNow
        /\ now - Load(file, FALSE).cache.LastUpdated >= CACHE_DURATION)
       => (\/ fetches'[Server] >= 1
           \/ saves'[Server] >= 1
           \/ pc'[Server] # "done"
           \/ file' # file)]_vars

\* ------------------------------------------------------------------------
\* The answers of the release endpoint
\* ------------------------------------------------------------------------
\* the answer is one for which FetchReleases may return an error: a
\* transport failure, a status other than 200, or a body that cannot be
\* read or does not parse as an array of releases
MayFail(resp) ==
    \/ resp.net # "ok"
    \/ resp.status # 200
    \/ ~resp.readOK
    \/ resp.body.kind # "releases"

\* C19: FetchReleases returns the release list, newest first, whenever the
\* endpoint answers with status 200 and a body that is a JSON array of
\* releases; it returns an error only for a transport failure, a 401 or
\* 403 answer, another status that is not 200, or a body that cannot be
\* read or parsed.
C19_FetchReleasesSucceedsOn200 ==
    \A p \in Procs :
        (op[p] = "UpdateCache" /\ fetches[p] >= 1)
        => LET r == FetchReleases(answer[p])
           IN  /\ ~MayFail(answer[p])
                   => /\ r.err = "nil"
                      /\ r.releases = SortNewestFirst(answer[p].body.releases)
               /\ r.err # "nil" => MayFail(answer[p])


\* ------------------------------------------------------------------------
\* The errors of a directory listing
\* ------------------------------------------------------------------------
\* errorResp.Message: the message member of the body, "" when the body is
\* not an object that has one
errorMessage(resp) ==
    IF IsErrorObject(resp) THEN resp.body.message ELSE <<>>

\* the text of the error scanDirectoryForDeprecations returns with the
\* given result on the given answer (errors of the transport and of the
\* decoding are named by their kind)
listingErrorText(r, resp) ==
    CASE r.err = "rate_limit" ->
            <<"GitHub API rate limit exceeded. Please wait before retrying or authenticate with a GitHub token">>
      [] r.err = "forbidden" ->
            <<"GitHub API access forbidden (403): ">> \o errorMessage(resp)
      [] r.err = "status" ->
            <<"failed to fetch directory listing: ", ToString(resp.status)>>
      [] OTHER -> <<r.err>>

\* the number of times the request occurs among the requests issued
RECURSIVE TimesRequested(_, _)
TimesRequested(url, reqs) ==
    IF reqs = <<>> THEN 0
    ELSE (IF Head(reqs) = url THEN 1 ELSE 0) + TimesRequested(url, Tail(reqs))

\* C20: A directory listing answered with status 403 and a message that
\* contains 'API rate limit exceeded' yields the rate-limit error, whose
\* text differs from the text of the error for a 403 without that message
\* and from the text of the error for any other status that is not 200;
\* the listing is requested once, by the failing call and by the whole
\* walk alike: no request is repeated.
C20_RateLimitDistinct ==
    fsd.err # "none" =>
        \A d \in DirSet :
            LET resp == source.listing[d]
                r == scanDirectoryForDeprecations(source, d)
                limited == /\ resp.net = "ok"
                           /\ resp.status = 403
                           /\ Contains(errorMessage(resp), RateLimitMessage)
            IN  /\ limited => r.err = "rate_limit"
                /\ (resp.net = "ok" /\ resp.status # 200 /\ ~limited)
                    => /\ r.err \in {"forbidden", "status"}
                       /\ r.err = "forbidden" <=> resp.status = 403
                       /\ listingErrorText(r, resp)
                            # listingErrorText(ScanResult("rate_limit", <<>>, <<>>), resp)
                /\ r.err # "nil" => r.reqs = <<ListingURL(d)>> /\ r.deps = <<>>
                /\ TimesRequested(ListingURL(d), fsd.reqs) = 1
                /\ \A j \in 1..Len(fsd.reqs) :
                        TimesRequested(fsd.reqs[j], fsd.reqs) = 1

\* the walk has met a rate-limited listing, a listing that was served and
\* documents that failed, and has requested each of them once
C20_Witness ==
    /\ fsd.err = "nil"
    /\ scanDirectoryForDeprecations(source, "material/").err = "rate_limit"
    /\ source.listing["widgets/"].status = 200
    /\ source.doc[DocA].status # 200
    /\ TimesRequested(ListingURL("material/"), fsd.reqs) = 1
    /\ TimesRequested(DocA, fsd.reqs) = 1


\* ------------------------------------------------------------------------
\* The latest version (internal/services/version_info.go)
\* ------------------------------------------------------------------------
\* A tag is a sequence of lexemes: a leading "v", runs of digits, ".", "-"
\* and the words of the pre-release markers.
Digits == {"0", "1", "3", "19", "29", "30", "31", "32", "33"}

\* regexp.MustCompile(`^\d+\.\d+\.\d+$`).MatchString(version)
IsSemver(version) ==
    /\ Len(version) = 5
    /\ version[1] \in Digits
    /\ version[2] = "."
    /\ version[3] \in Digits
    /\ version[4] = "."
    /\ version[5] \in Digits

\* isStable of the loop over the releases in GetFlutterVersionInfo
isStable(release) ==
    LET tagLower == ToLower(release.TagName)
        version == ParseVersionFromRelease(release)
    IN  /\ ~release.Prerelease
        /\ ~Contains(tagLower, <<"beta">>)
        /\ ~Contains(tagLower, <<"dev">>)
        /\ ~Contains(tagLower, <<"pre">>)
        /\ ~Contains(tagLower, <<"rc">>)
        /\ ~Contains(tagLower, <<"alpha">>)
        /\ ~Contains(tagLower, <<"hotfix">>)
        /\ ~Contains(version, <<"-">>)
        /\ IsSemver(version)
        /\ ~Contains(release.TagName, <<"-">>)
        /\ ~Contains(release.TagName, <<".", "pre">>)
        /\ ~Contains(release.TagName, <<".", "rc">>)
        /\ ~Contains(release.TagName, <<".", "beta">>)
        /\ ~Contains(release.TagName, <<".", "alpha">>)

\* the loop over the releases: the version of the first stable one, "" when
\* there is none
RECURSIVE FirstStable(_)
FirstStable(releases) ==
    IF releases = <<>> THEN <<>>
    ELSE IF isStable(Head(releases))
    THEN ParseVersionFromRelease(Head(releases))
    ELSE FirstStable(Tail(releases))

\* the loop over officialReleases.Releases: the version of the first
\* release of the stable channel, "" when there is none
RECURSIVE FirstOfStableChannel(_)
FirstOfStableChannel(releases) ==
    IF releases = <<>> THEN <<>>
    ELSE IF Head(releases).Channel = "stable" THEN Head(releases).Version
    ELSE FirstOfStableChannel(Tail(releases))

\* what the version service meets: the answer of the Flutter command line
\* (installed, and the version it prints or the error of parsing it), the
\* result of FetchOfficialReleases and the answer of the release endpoint
VersionWorld(cli, official, github) ==
    [cli |-> cli, official |-> official, github |-> github]

VersionResult(err, version) == [err |-> err, version |-> version]

\* VersionInfoService.GetFlutterVersionInfo: the error and the
\* LatestVersion of the info it returns
GetFlutterVersionInfo(env) ==
    LET installedVersion ==
            IF env.cli.installed /\ env.cli.err = "nil"
            THEN env.cli.version ELSE <<>>
        officialVersion ==
            IF env.official.err = "nil" /\ env.official.releases # <<>>
            THEN FirstOfStableChannel(env.official.releases) ELSE <<>>
        r == FetchReleases(env.github)
    IN  IF installedVersion # <<>>
        THEN VersionResult("nil", installedVersion)
        ELSE IF officialVersion # <<>>
        THEN VersionResult("nil", officialVersion)
        ELSE IF r.err # "nil"
        THEN VersionResult("failed to fetch Flutter releases from GitHub", <<>>)
        ELSE IF r.releases = <<>>
        THEN VersionResult("no Flutter releases found", <<>>)
        ELSE IF FirstStable(r.releases) # <<>>
        THEN VersionResult("nil", FirstStable(r.releases))
        ELSE VersionResult("nil", ParseVersionFromRelease(r.releases[1]))

\* buildDetailsString: the first line of the details
buildDetailsString(version) == <<"Latest Flutter Version: ">> \o version

\* ------------------------------------------------------------------------
\* The tool handlers (internal/handlers, and the update tool of main.go)
\* ------------------------------------------------------------------------
\* mcp_golang.NewToolResponse(mcp_golang.NewTextContent(text)), err
ToolResponse(text, err) == [text |-> text, err |-> err]

\* the lines a handler writes for one record: its number and API, and the
\* Replacement, Description, Example and Version that are not empty
FormatDeprecation(i, dep) ==
    <<ToString(i), ". **">> \o dep.API \o <<"**\n">>
    \o (IF dep.Replacement # <<>>
        THEN <<"   - Replacement: ">> \o dep.Replacement \o <<"\n">> ELSE <<>>)
    \o <<"   - Description: ">> \o dep.Description \o <<"\n">>
    \o (IF dep.Example # <<>>
        THEN <<"   - Example: ">> \o dep.Example \o <<"\n">> ELSE <<>>)
    \o (IF dep.Version # <<>>
        THEN <<"   - Since version: ">> \o dep.Version \o <<"\n">> ELSE <<>>)
    \o <<"\n">>

RECURSIVE FormatDeprecations(_, _)
FormatDeprecations(deps, i) ==
    IF i > Len(deps) THEN <<>>
    ELSE FormatDeprecation(i, deps[i]) \o FormatDeprecations(deps, i + 1)

\* the API names of the records of the model, in the order of Go's <
APINames ==
    << <<"Color", ".", "withOpacity">>,
       <<"FlatButton">>,
       <<"FloatingActionButton", "(", "child", ":">>,
       <<"OldThing">>,
       <<"OutlineButton">>,
       <<"RaisedButton">>,
       <<"Scaffold", ".", "of", "(", "context", ")", ".", "showSnackBar">>,
       <<"Widget", ".", "bar">> >>

\* the place of an API name in that order (past the end for another name)
APIRank(api) ==
    IF \E n \in 1..Len(APINames) : APINames[n] = api
    THEN CHOOSE n \in 1..Len(APINames) : APINames[n] = api
    ELSE Len(APINames) + 1

\* sort.Slice(cache.Deprecations, less by API)
RECURSIVE SiftByAPI(_, _)
SiftByAPI(s, j) ==
    IF j > 1 /\ APIRank(s[j].API) < APIRank(s[j - 1].API)
    THEN SiftByAPI([s EXCEPT ![j] = s[j - 1], ![j - 1] = s[j]], j - 1)
    ELSE s

RECURSIVE SortByAPIFrom(_, _)
SortByAPIFrom(s, i) ==
    IF i > Len(s) THEN s ELSE SortByAPIFrom(SiftByAPI(s, i), i + 1)

SortByAPI(deps) == SortByAPIFrom(deps, 2)

\* MCPHandlers.CheckFlutterDeprecations on the records the service returned
CheckFlutterDeprecations(deps) ==
    IF Len(deps) = 0
    THEN ToolResponse(<<"No deprecated APIs found in the provided code.">>, "nil")
    ELSE ToolResponse(<<"Found deprecated APIs:\n\n">>
                        \o FormatDeprecations(deps, 1), "nil")

\* a faulty listing: the error of Load is returned to the protocol layer
ListFlutterDeprecationsRaising(loaded) ==
    IF loaded.err # "nil"
    THEN ToolResponse(<<>>, loaded.err)
    ELSE IF Len(loaded.cache.Deprecations) = 0
    THEN ToolResponse(<<"No deprecations found in cache. Try updating the cache first.">>,
                      "nil")
    ELSE ToolResponse(<<"Flutter Deprecations (Last updated: ",
                        ToString(loaded.cache.LastUpdated), ")\n\n">>
                        \o FormatDeprecations(SortByAPI(loaded.cache.Deprecations), 1),
                      "nil")

\* MCPHandlers.ListFlutterDeprecations on the result of Load
ListFlutterDeprecations(loaded) ==
    IF loaded.err # "nil"
    THEN ToolResponse(<<"Error loading deprecations: ", loaded.err>>, "nil")
    ELSE IF Len(loaded.cache.Deprecations) = 0
    THEN ToolResponse(<<"No deprecations found in cache. Try updating the cache first.">>,
                      "nil")
    ELSE ToolResponse(<<"Flutter Deprecations (Last updated: ",
                        ToString(loaded.cache.LastUpdated), ")\n\n">>
                        \o FormatDeprecations(SortByAPI(loaded.cache.Deprecations), 1),
                      "nil")

\* MCPHandlers.CheckFlutterVersionInfo on the result of the version service
CheckFlutterVersionInfo(r) ==
    IF r.err # "nil"
    THEN ToolResponse(<<"Error getting Flutter version info: ", r.err>>, "nil")
    ELSE ToolResponse(buildDetailsString(r.version), "nil")

\* the handler of update_flutter_deprecations on the error of the refresh
\* and the result of the Load that follows it
updateFlutterDeprecations(updateErr, loaded) ==
    IF updateErr # "nil"
    THEN ToolResponse(<<"Error updating deprecations cache: ", updateErr>>, "nil")
    ELSE IF loaded.err # "nil"
    THEN ToolResponse(<<"Cache updated but failed to load for verification.">>, "nil")
    ELSE ToolResponse(<<"Successfully updated deprecations cache. Found ",
                        ToString(Len(loaded.cache.Deprecations)),
                        " deprecations. Last updated: ",
                        ToString(loaded.cache.LastUpdated)>>, "nil")

\* fetchFlutterReleases of main.go on the answer of the release endpoint:
\* the status is not looked at
fetchFlutterReleases(resp) ==
    IF resp.net # "ok"
    THEN [err |-> "transport", releases |-> <<>>]
    ELSE IF ~resp.readOK
    THEN [err |-> "read", releases |-> <<>>]
    ELSE IF resp.body.kind # "releases"
    THEN [err |-> "json", releases |-> <<>>]
    ELSE [err |-> "nil", releases |-> SortNewestFirst(resp.body.releases)]

\* updateDeprecationsCache of main.go: the error it returns and the cache
\* file it leaves, given the result of its loadCache, the answer of the
\* release endpoint, the order of the range over the table, the time and
\* whether saveCache fails
updateDeprecationsCache(f, loaded, resp, order, t, saveFails) ==
    LET r == fetchFlutterReleases(resp)
        refreshed ==
            Refreshed(loaded.cache,
                      ExtractDeprecationsFromReleaseNotes(r.releases, order, t), t)
    IN  IF loaded.err # "nil" THEN [err |-> loaded.err, file |-> f]
        ELSE IF t - loaded.cache.LastUpdated < CACHE_DURATION
        THEN [err |-> "nil", file |-> f]
        ELSE IF r.err # "nil" THEN [err |-> r.err, file |-> f]
        ELSE IF saveFails THEN [err |-> "mkdir", file |-> f]
        ELSE [err |-> "nil",
              file |-> [exists |-> TRUE, bytes |-> Marshal(refreshed)]]

\* ------------------------------------------------------------------------
\* Inputs: tags and what the version service meets
\* ------------------------------------------------------------------------
NoBody == << <<>>, <<>>, <<>> >>

TaggedRelease(tag, publishedAt, prerelease) ==
    FlutterRelease(tag, publishedAt, NoBody, prerelease)

Stable332 == TaggedRelease(<<"v", "3", ".", "32", ".", "0">>, StartNow - 300, FALSE)
Stable331 == TaggedRelease(<<"3", ".", "31", ".", "0">>, StartNow - 400, FALSE)
Pre319 ==
    TaggedRelease(<<"3", ".", "19", ".", "0", "-", "0", ".", "1", ".", "pre">>,
                  StartNow - 100, TRUE)
Hotfix332 ==
    TaggedRelease(<<"v", "3", ".", "32", ".", "0", "-", "hotfix", ".", "1">>,
                  StartNow - 200, FALSE)
Flagged333 == TaggedRelease(<<"v", "3", ".", "33", ".", "0">>, StartNow - 50, TRUE)
TwoPart == TaggedRelease(<<"v", "3", ".", "32">>, StartNow - 250, FALSE)

TaggedReleases == {Stable332, Stable331, Pre319, Hotfix332, Flagged333, TwoPart}

MaxTagged == 2

\* the answers of the release endpoint to the version service
VersionResponses ==
    {Response("ok", 200, ReleasesBody(releases), TRUE) :
        releases \in SeqsUpTo(TaggedReleases, MaxTagged)}
    \cup {Response("ok", 403,
                   MessageBody(<<"API rate limit exceeded", " for 192.0.2.1">>), TRUE),
          Response("err", 0, GarbageBody, FALSE)}

\* the Flutter command line: absent, printing a version, printing a first
\* line without a version
CliAnswers ==
    {[installed |-> FALSE, err |-> "nil", version |-> <<>>],
     [installed |-> TRUE, err |-> "nil", version |-> <<"3", ".", "29", ".", "0">>],
     [installed |-> TRUE, err |-> "parse", version |-> <<>>]}

OfficialRelease(channel, version) == [Channel |-> channel, Version |-> version]

\* the results of FetchOfficialReleases: an error, releases without a
\* stable one, releases with a stable one
OfficialResults ==
    {[err |-> "transport", releases |-> <<>>],
     [err |-> "nil", releases |-> <<>>],
     [err |-> "nil",
      releases |-> <<OfficialRelease("beta", <<"3", ".", "33", ".", "0", "-", "0", ".", "1", ".", "pre">>)>>],
     [err |-> "nil",
      releases |-> <<OfficialRelease("beta", <<"3", ".", "33", ".", "0", "-", "0", ".", "1", ".", "pre">>),
                     OfficialRelease("stable", <<"3", ".", "30", ".", "0">>)>>]}

VersionWorlds ==
    {VersionWorld(cli, official, github) :
        cli \in CliAnswers, official \in OfficialResults,
        github \in VersionResponses}

\* the worlds the tools of the handler specification meet
ToolWorlds ==
    {VersionWorld(cli, official, github) :
        cli \in CliAnswers,
        official \in {[err |-> "transport", releases |-> <<>>]},
        github \in {Response("ok", 200, ReleasesBody(<<Pre319, Stable332>>), TRUE),
                    Response("err", 0, GarbageBody, FALSE)}}

\* ------------------------------------------------------------------------
\* The version service on its own
\* ------------------------------------------------------------------------
InitVersion ==
    /\ ProcsAtRest
    /\ file = NoFile
    /\ code = [p \in Procs |-> <<>>]
    /\ source \in VersionWorlds
    /\ fsd = NoScan

\* MCPHandlers.CheckFlutterVersionInfo: the call of the version service and
\* the response
ToolVersionInfo(p) ==
    /\ pc[p] = "idle"
    /\ LET r == GetFlutterVersionInfo(source)
       IN  /\ ret' = Set(ret, p, r.err)
           /\ answer' = Set(answer, p, CheckFlutterVersionInfo(r))
    /\ op' = Set(op, p, "VersionInfo")
    /\ pc' = Set(pc, p, "done")
    /\ UNCHANGED <<now, file, cache, data, off, fd, code, found, fetches, saves,
                   scanned, before, source, fsd>>

NextVersion == ToolVersionInfo(Server)

SpecVersion == InitVersion /\ [][NextVersion]_vars

\* ------------------------------------------------------------------------
\* The tools on their own: every state of the cache file, every snippet
\* ------------------------------------------------------------------------
InitTools ==
    /\ ProcsAtRest
    /\ file \in CacheFiles
    /\ \E snippet \in TestSnippets :
        code = [p \in Procs |-> IF p = Server THEN snippet ELSE <<>>]
    /\ source \in ToolWorlds
    /\ fsd = NoScan

\* MCPHandlers.CheckFlutterDeprecations
ToolCheck(p) ==
    /\ pc[p] = "idle"
    /\ \E order \in MapOrders, readFails \in BOOLEAN :
        LET deps == CheckCodeForDeprecations(code[p], Load(file, readFails), order)
        IN  /\ found' = Set(found, p, deps)
            /\ ret' = Set(ret, p, Load(file, readFails).err)
            /\ answer' = Set(answer, p, CheckFlutterDeprecations(deps))
    /\ op' = Set(op, p, "Check")
    /\ pc' = Set(pc, p, "done")
    /\ UNCHANGED <<now, file, cache, data, off, fd, code, fetches, saves,
                   scanned, before, source, fsd>>

\* MCPHandlers.ListFlutterDeprecations
ToolList(p) ==
    /\ pc[p] = "idle"
    /\ \E readFails \in BOOLEAN :
        LET loaded == Load(file, readFails)
        IN  /\ cache' = Set(cache, p, loaded.cache)
            /\ ret' = Set(ret, p, loaded.err)
            /\ answer' = Set(answer, p, ListFlutterDeprecations(loaded))
    /\ op' = Set(op, p, "List")
    /\ pc' = Set(pc, p, "done")
    /\ UNCHANGED <<now, file, data, off, fd, code, found, fetches, saves,
                   scanned, before, source, fsd>>

\* the handler of update_flutter_deprecations: the refresh, the Load that
\* follows it and the response
ToolUpdate(p) ==
    /\ pc[p] = "idle"
    /\ \E resp \in ReleaseResponses, order \in MapOrders,
          readFails \in BOOLEAN, saveFails \in BOOLEAN, rereadFails \in BOOLEAN :
        LET u == updateDeprecationsCache(file, Load(file, readFails), resp, order,
                                         now, saveFails)
            loaded == Load(u.file, rereadFails)
        IN  /\ file' = u.file
            /\ ret' = Set(ret, p, IF u.err # "nil" THEN u.err ELSE loaded.err)
            /\ cache' = Set(cache, p, loaded.cache)
            /\ answer' = Set(answer, p, updateFlutterDeprecations(u.err, loaded))
    /\ op' = Set(op, p, "Update")
    /\ pc' = Set(pc, p, "done")
    /\ UNCHANGED <<now, data, off, fd, code, found, fetches, saves,
                   scanned, before, source, fsd>>

NextTools ==
    \/ ToolCheck(Server)
    \/ ToolList(Server)
    \/ ToolVersionInfo(Server)
    \/ ToolUpdate(Server)

SpecTools == InitTools /\ [][NextTools]_vars

\* C21: No handler raises a protocol-level fault for a failure of the
\* services.  Whatever the cache file, the snippet and the answers of the
\* outside hold, the response of CheckFlutterDeprecations,
\* ListFlutterDeprecations, CheckFlutterVersionInfo and of the update tool
\* carries a nil error and a text, and the text names the failure: the
\* error of Load in a listing, the empty cache, the absence of matches, the
\* error of the version service, the error of the refresh or of the Load
\* that follows it.
C21_NoProtocolFault ==
    (pc[Server] = "done") =>
        LET response == answer[Server]
        IN  /\ response.err = "nil"
            /\ response.text # <<>>
            /\ (op[Server] = "Check" /\ found[Server] = <<>>)
                => response.text = <<"No deprecated APIs found in the provided code.">>
            /\ (op[Server] = "List" /\ ret[Server] # "nil")
                => response.text = <<"Error loading deprecations: ", ret[Server]>>
            /\ (op[Server] = "List" /\ ret[Server] = "nil"
                    /\ cache[Server].Deprecations = <<>>)
                => response.text =
                    <<"No deprecations found in cache. Try updating the cache first.">>
            /\ (op[Server] = "VersionInfo" /\ ret[Server] # "nil")
                => response.text =
                    <<"Error getting Flutter version info: ", ret[Server]>>
            /\ (op[Server] = "Update" /\ ret[Server] # "nil")
                => \/ response.text =
                        <<"Error updating deprecations cache: ", ret[Server]>>
                   \/ response.text =
                        <<"Cache updated but failed to load for verification.">>

\* a listing has met a cache file that cannot be read and has answered
\* with a response that names the error
C21_Witness ==
    /\ pc[Server] = "done"
    /\ op[Server] = "List"
    /\ file.exists
    /\ ret[Server] # "nil"
    /\ answer[Server].err = "nil"
    /\ answer[Server].text = <<"Error loading deprecations: ", ret[Server]>>

\* C22: Latest-stable selection over the release list.  When the version
\* is taken from the release endpoint (the Flutter command line and the
\* official releases give none) and the endpoint answers with status 200
\* and a list of releases, the reported version is that of the first
\* release, newest first, that is not flagged prerelease, whose tag holds
\* no pre-release marker and whose version has the form
\* digits.digits.digits; the version of the first release when none
\* qualifies; and the operation fails with 'no Flutter releases found' when
\* the list is empty.
C22_LatestStableSelected ==
    (/\ pc[Server] = "done"
     /\ op[Server] = "VersionInfo"
     /\ ~(source.cli.installed /\ source.cli.err = "nil")
     /\ FirstOfStableChannel(source.official.releases) = <<>>
     /\ source.github.net = "ok"
     /\ source.github.status = 200
     /\ source.github.readOK
     /\ source.github.body.kind = "releases")
    => LET releases == SortNewestFirst(source.github.body.releases)
       IN  IF releases = <<>>
           THEN ret[Server] = "no Flutter releases found"
           ELSE /\ ret[Server] = "nil"
                /\ answer[Server].text =
                    buildDetailsString(
                        IF FirstStable(releases) # <<>> THEN FirstStable(releases)
                        ELSE ParseVersionFromRelease(releases[1]))


\* ------------------------------------------------------------------------
\* The rules of the look-ahead
\* ------------------------------------------------------------------------
\* C23: Forward resolution tests each line it does not pass over against
\* the shapes in the order type declaration, qualified constructor, getter,
\* setter, method, property; the first rule that matches decides the
\* symbol and the resolution stops at that line, whatever the lines below
\* it hold and whatever rule of a lower place matches the same line; a
\* method match whose identifier is if, for, while, switch, return or throw
\* yields no symbol for its line.
C23_FirstRuleWins ==
    fsd.err # "none" =>
        LET line(j) == TrimSpace(source[j])
            is(pattern, j) == FindStringSubmatch(pattern, line(j)).ok
            group(pattern, j, n) == FindStringSubmatch(pattern, line(j)).m[n]
            markers == {i \in 1..Len(source) : is(deprecatedPattern, i)}
            window(i) ==
                {j \in (i + 1)..Len(source) :
                    j <= i + LookForward /\ ~Skipped(line(j))}
            keyword(j) ==
                group(methodPattern, j, 1) \in {<<w>> : w \in ControlWords}
            exact(j) == is(classPattern, j) \/ is(constructorPattern, j)
            decides(j) ==
                \/ exact(j)
                \/ is(getterPattern, j)
                \/ is(setterPattern, j)
                \/ is(methodPattern, j) /\ ~keyword(j)
                \/ ~is(methodPattern, j) /\ is(propertyPattern, j)
            symbol(j) ==
                IF is(classPattern, j) THEN group(classPattern, j, 1)
                ELSE IF is(constructorPattern, j)
                THEN group(constructorPattern, j, 1) \o <<".">>
                        \o group(constructorPattern, j, 2)
                ELSE IF is(getterPattern, j) THEN group(getterPattern, j, 1)
                ELSE IF is(setterPattern, j) THEN group(setterPattern, j, 1)
                ELSE IF is(methodPattern, j) THEN group(methodPattern, j, 1)
                ELSE group(propertyPattern, j, 2)
            deciders(i) == {j \in window(i) : decides(j)}
            first(i) == CHOOSE j \in deciders(i) : \A k \in deciders(i) : j <= k
            emitting == {i \in markers : deciders(i) # {}}
            place(i) == Cardinality({k \in emitting : k <= i})
            EndsWith(api, name) ==
                /\ Len(api) >= Len(name)
                /\ SubSeq(api, Len(api) - Len(name) + 1, Len(api)) = name
        IN  /\ Len(fsd.deps) = Cardinality(emitting)
            /\ \A i \in emitting :
                /\ EndsWith(fsd.deps[place(i)].API, symbol(first(i)))
                /\ exact(first(i)) => fsd.deps[place(i)].API = symbol(first(i))

\* the marker stands above a line that has the method shape and the
\* property shape, and above a line with the keyword if followed by a
\* method: the method rule has decided both
C23_Witness ==
    /\ fsd.err = "nil"
    /\ \/ /\ source = <<MarkerLine(UseFooInstead), InitLine, MethodLine>>
          /\ Len(fsd.deps) = 1
          /\ fsd.deps[1].API = <<"foo">>
       \/ /\ source = <<MarkerLine(UseFooInstead), ControlReturnLine, MethodLine>>
          /\ Len(fsd.deps) = 1
          /\ fsd.deps[1].API = <<"bar">>


\* ------------------------------------------------------------------------
\* The qualification of the symbol
\* ------------------------------------------------------------------------
\* C24 (as stated): with the context being the nearest type declaration
\* within the 50 lines above the marker, for every rule the emitted API
\* name is Context.Symbol when a context exists and the identifier differs
\* from the context name, and the bare identifier otherwise.
C24_QualifiedByEveryRule ==
    fsd.err # "none" =>
        LET line(j) == TrimSpace(source[j])
            is(pattern, j) == FindStringSubmatch(pattern, line(j)).ok
            group(pattern, j, n) == FindStringSubmatch(pattern, line(j)).m[n]
            markers == {i \in 1..Len(source) : is(deprecatedPattern, i)}
            window(i) ==
                {j \in (i + 1)..Len(source) :
                    j <= i + LookForward /\ ~Skipped(line(j))}
            keyword(j) ==
                group(methodPattern, j, 1) \in {<<w>> : w \in ControlWords}
            decides(j) ==
                \/ is(classPattern, j)
                \/ is(constructorPattern, j)
                \/ is(getterPattern, j)
                \/ is(setterPattern, j)
                \/ is(methodPattern, j) /\ ~keyword(j)
                \/ ~is(methodPattern, j) /\ is(propertyPattern, j)
            deciders(i) == {j \in window(i) : decides(j)}
            first(i) == CHOOSE j \in deciders(i) : \A k \in deciders(i) : j <= k
            emitting == {i \in markers : deciders(i) # {}}
            place(i) == Cardinality({k \in emitting : k <= i})
            above(i) ==
                {j \in 1..(i - 1) : j >= i - LookBehind /\ is(classPattern, j)}
            context(i) ==
                IF above(i) = {} THEN <<>>
                ELSE group(classPattern,
                           CHOOSE j \in above(i) : \A k \in above(i) : k <= j, 1)
            unlessOwn(c, name) ==
                IF c # <<>> /\ name # c THEN c \o <<".">> \o name ELSE name
            always(c, name) ==
                IF c # <<>> THEN c \o <<".">> \o name ELSE name
            symbol(j) ==
                IF is(classPattern, j) THEN group(classPattern, j, 1)
                ELSE IF is(constructorPattern, j)
                THEN group(constructorPattern, j, 1) \o <<".">>
                        \o group(constructorPattern, j, 2)
                ELSE IF is(getterPattern, j) THEN group(getterPattern, j, 1)
                ELSE IF is(setterPattern, j) THEN group(setterPattern, j, 1)
                ELSE IF is(methodPattern, j) THEN group(methodPattern, j, 1)
                ELSE group(propertyPattern, j, 2)
        IN  \A i \in emitting :
                fsd.deps[place(i)].API = unlessOwn(context(i), symbol(first(i)))

\* C24: Symbol qualification, rule by rule.  With the context being the
\* nearest type declaration within the 50 lines above the marker: a type
\* declaration is emitted under its own name and a qualified constructor
\* as Type.identifier, with or without a context; a getter, a setter and a
\* property are emitted as Context.Symbol whenever a context exists, also
\* when the identifier equals the context name, and bare when none exists;
\* a method is emitted as Context.Symbol when a context exists and the
\* identifier differs from the context name, and bare otherwise.
C24_QualifiedRuleByRule ==
    fsd.err # "none" =>
        LET line(j) == TrimSpace(source[j])
            is(pattern, j) == FindStringSubmatch(pattern, line(j)).ok
            group(pattern, j, n) == FindStringSubmatch(pattern, line(j)).m[n]
            markers == {i \in 1..Len(source) : is(deprecatedPattern, i)}
            window(i) ==
                {j \in (i + 1)..Len(source) :
                    j <= i + LookForward /\ ~Skipped(line(j))}
            keyword(j) ==
                group(methodPattern, j, 1) \in {<<w>> : w \in ControlWords}
            decides(j) ==
                \/ is(classPattern, j)
                \/ is(constructorPattern, j)
                \/ is(getterPattern, j)
                \/ is(setterPattern, j)
                \/ is(methodPattern, j) /\ ~keyword(j)
                \/ ~is(methodPattern, j) /\ is(propertyPattern, j)
            deciders(i) == {j \in window(i) : decides(j)}
            first(i) == CHOOSE j \in deciders(i) : \A k \in deciders(i) : j <= k
            emitting == {i \in markers : deciders(i) # {}}
            place(i) == Cardinality({k \in emitting : k <= i})
            above(i) ==
                {j \in 1..(i - 1) : j >= i - LookBehind /\ is(classPattern, j)}
            context(i) ==
                IF above(i) = {} THEN <<>>
                ELSE group(classPattern,
                           CHOOSE j \in above(i) : \A k \in above(i) : k <= j, 1)
            unlessOwn(c, name) ==
                IF c # <<>> /\ name # c THEN c \o <<".">> \o name ELSE name
            always(c, name) ==
                IF c # <<>> THEN c \o <<".">> \o name ELSE name
            expected(c, j) ==
                IF is(classPattern, j) THEN group(classPattern, j, 1)
                ELSE IF is(constructorPattern, j)
                THEN group(constructorPattern, j, 1) \o <<".">>
                        \o group(constructorPattern, j, 2)
                ELSE IF is(getterPattern, j)
                THEN always(c, group(getterPattern, j, 1))
                ELSE IF is(setterPattern, j)
                THEN always(c, group(setterPattern, j, 1))
                ELSE IF is(methodPattern, j)
                THEN unlessOwn(c, group(methodPattern, j, 1))
                ELSE always(c, group(propertyPattern, j, 2))
        IN  /\ Len(fsd.deps) = Cardinality(emitting)
            /\ \A i \in emitting :
                fsd.deps[place(i)].API = expected(context(i), first(i))

\* inside the class Widget a marker stands above a getter named Widget,
\* which is emitted qualified; in another document the class line lies 51
\* lines above the marker and the method below it is emitted bare
C24_Witness ==
    /\ fsd.err = "nil"
    /\ Len(fsd.deps) = 1
    /\ \/ /\ source = <<ClassLine("Widget"), MarkerLine(UseFooInstead),
                        OwnNameGetterLine, BraceLine>>
          /\ fsd.deps[1].API = <<"Widget", ".", "Widget">>
       \/ /\ source = <<ClassLine("Widget")>> \o Repeat(BlankLine, LookBehind)
                        \o <<MarkerLine(UseFooInstead), MethodLine>>
          /\ fsd.deps[1].API = <<"bar">>

\* C25: Replacement inference is a strict cascade.  The Replacement of
\* every record the scan emits is the capture of the first extraction
\* pattern that matches its description; only if none matches, a
\* replacement the lookup from the lower-cased API name gives (an entry of
\* the table whose key the name contains, or else the suggestion for the
\* names that contain a generic word such as "button"); only if the name
\* gives nothing, the guidance of the description keywords ('will lead to
\* bugs', 'performance', 'accessibility'); and empty otherwise.  So a name
\* that contains "button" under a description that contains 'performance'
\* and no extraction phrase gets the button suggestion.
C25_StrictCascade ==
    fsd.err = "nil" =>
        \A k \in 1..Len(fsd.deps) :
            LET dep == fsd.deps[k]
                api == ToLower(dep.API)
                desc == ToLower(dep.Description)
                extracted == extractReplacement(dep.Description)
                table == {inferPatterns[n].replacement :
                            n \in {e \in 1..Len(inferPatterns) :
                                     ContainsKey(api, inferPatterns[e].key)}}
                byName ==
                    IF HasSuffixKey(api, "withoutsettling")
                    THEN <<"Use standard navigation/animation methods that properly settle">>
                    ELSE IF ContainsKey(api, <<"copywidth">>) \/ ContainsKey(api, <<"copyheight">>)
                    THEN <<"Use copyWith() with specific dimension parameters">>
                    ELSE IF ContainsKey(api, <<"button">>)
                    THEN <<"Use Material 3 button alternatives (ElevatedButton, TextButton, OutlinedButton)">>
                    ELSE IF ContainsKey(api, <<"color">>)
                    THEN <<"Use updated Color API with values() constructor">>
                    ELSE IF ContainsKey(api, <<"theme">>)
                    THEN <<"Use Material 3 ThemeData with updated color scheme">>
                    ELSE <<>>
                byKeyword ==
                    IF \/ ContainsKey(desc, <<"will", " ", "lead", " ", "to", " ", "bugs">>)
                       \/ ContainsKey(desc, <<"causes", " ", "issues">>)
                    THEN IF ContainsKey(api, <<"jump">>) \/ ContainsKey(api, <<"scroll">>)
                         THEN <<"Use ScrollController methods or ScrollPosition alternatives">>
                         ELSE <<"Alternative implementation recommended - see Flutter documentation">>
                    ELSE IF ContainsKey(desc, <<"performance">>)
                    THEN <<"More efficient alternative available - check Flutter performance guide">>
                    ELSE IF ContainsKey(desc, <<"accessibility">>)
                    THEN <<"Use semantically improved alternative for better accessibility">>
                    ELSE <<>>
            IN  IF extracted # <<>> THEN dep.Replacement = extracted
                ELSE IF table # {} THEN dep.Replacement \in table
                ELSE IF byName # <<>> THEN dep.Replacement = byName
                ELSE dep.Replacement = byKeyword

\* C26: A description 'Use the X method' or 'use X method' gives the
\* Replacement X.  Every record the scan emits for a marker whose
\* description is 'Use the Foo method' or 'use Foo method' has the
\* Replacement Foo.
C26_UseTheMethodNamesX ==
    fsd.err = "nil" =>
        \A k \in 1..Len(fsd.deps) :
            fsd.deps[k].Description \in {UseTheFooMethod, UseFooMethod}
            => fsd.deps[k].Replacement = <<"Foo">>

\* ------------------------------------------------------------------------
\* The scanner on documents with long lines
\* ------------------------------------------------------------------------
\* a line of MaxScanTokenSize - 1 characters and one of MaxScanTokenSize
FittingLine == <<LongRun>>
OverlongLine == <<LongRun, "x">>

\* a document: lines with a marker or none, a long line, and lines with a
\* marker or none
LongDocuments ==
    {above \o <<long>> \o below :
        above \in {<<>>, <<MarkerLine(UseFooInstead)>>}
                  \cup {<<ClassLine("Widget"), MarkerLine(d), decl>> :
                            d \in Descriptions,
                            decl \in {MethodLine, PropertyLine, BraceLine}},
        long \in {FittingLine, OverlongLine},
        below \in {<<>>, <<MethodLine>>}
                  \cup {<<MarkerLine(d), decl>> :
                            d \in {UseFooInstead, NoLongerSupported},
                            decl \in {MethodLine, BraceLine}}}

InitLong ==
    /\ ProcsAtRest
    /\ file \in CacheFiles
    /\ code = [p \in Procs |-> <<>>]
    /\ source \in LongDocuments
    /\ fsd = NoScan

NextLong == ScanDocument

SpecLong == InitLong /\ [][NextLong]_vars

\* C27: Scanning never raises.  For every sequence of lines, whatever their
\* content or length, the scan of a document answered with status 200
\* returns a list of records and no error; a line that matches nothing
\* takes no record from the other markers (a marker right above a method
\* or a property has its record); and the scan leaves the cache, in memory
\* and persisted, as it was.
C27_ScanNeverRaises ==
    [][(fsd.err = "none" /\ fsd'.err # "none") =>
        /\ fsd'.err = "nil"
        /\ \A i \in 1..(Len(source) - 1) :
            \A d \in Descriptions :
                (source[i] = MarkerLine(d) /\ source[i + 1] \in {MethodLine, PropertyLine})
                => \E k \in 1..Len(fsd'.deps) : fsd'.deps[k].Description = d
        /\ cache' = cache
        /\ file' = file]_vars

\* ------------------------------------------------------------------------
\* Two refreshes at once
\* ------------------------------------------------------------------------
\* Two runs of the update command on one cache file: each process is a run
\* of UpdateCacheWithProgress, and neither returns, so that the state
\* after both have ended is kept.
InitRace == Init

NextRace ==
    \/ \E p \in Procs :
        \/ UpdateCacheWithProgressLoad(p)
        \/ UpdateCacheWithProgressScan(p)
        \/ SaveOpen(p)
        \/ SaveWrite(p)
    \/ Tick

SpecRace == InitRace /\ [][NextRace]_vars

\* C28: Two concurrent refreshes leave the complete output of one of them.
\* When two refreshes that both found the cache stale have both called
\* Save and both returned success, the cache file parses and its bytes are
\* the serialised cache of one of the two (LastUpdated and Deprecations of
\* the same refresh): never a mixed, truncated or empty file.
C28_OneRefreshWins ==
    (\A p \in Procs : /\ op[p] = "UpdateCacheWithProgress"
                      /\ pc[p] = "done"
                      /\ ret[p] = "nil"
                      /\ saves[p] = 1)
    => /\ file.exists
       /\ WellFormed(file.bytes)
       /\ \E p \in Procs : file.bytes = Marshal(cache[p])

\* C29: InferReplacement is deterministic.  Two calls with the same API
\* name and the same description return the same replacement, also when
\* the lower-cased name contains more than one key of the lookup table:
\* two records of one scan that have the same API and the same Description
\* have the same Replacement.
C29_InferDeterministic ==
    fsd.err = "nil" =>
        \A j \in 1..Len(fsd.deps), k \in 1..Len(fsd.deps) :
            (/\ fsd.deps[j].API = fsd.deps[k].API
             /\ fsd.deps[j].Description = fsd.deps[k].Description)
            => fsd.deps[j].Replacement = fsd.deps[k].Replacement

\* ------------------------------------------------------------------------
\* Markers that share a declaration
\* ------------------------------------------------------------------------
\* C30 (as stated): every marker line is resolved independently of the
\* others.  The scan emits one record for each marker line that has a
\* deciding line in its window and none for the others, in the order of
\* the marker lines; every record has a non-empty API and the description
\* of its own marker; and two markers that resolve to the same declaration
\* both emit a record, with the same API name.
C30_MarkersIndependent ==
    fsd.err # "none" =>
        LET line(j) == TrimSpace(source[j])
            is(pattern, j) == FindStringSubmatch(pattern, line(j)).ok
            group(pattern, j, n) == FindStringSubmatch(pattern, line(j)).m[n]
            markers == {i \in 1..Len(source) : is(deprecatedPattern, i)}
            window(i) ==
                {j \in (i + 1)..Len(source) :
                    j <= i + LookForward /\ ~Skipped(line(j))}
            keyword(j) ==
                group(methodPattern, j, 1) \in {<<w>> : w \in ControlWords}
            decides(j) ==
                \/ is(classPattern, j)
                \/ is(constructorPattern, j)
                \/ is(getterPattern, j)
                \/ is(setterPattern, j)
                \/ is(methodPattern, j) /\ ~keyword(j)
                \/ ~is(methodPattern, j) /\ is(propertyPattern, j)
            deciders(i) == {j \in window(i) : decides(j)}
            first(i) == CHOOSE j \in deciders(i) : \A k \in deciders(i) : j <= k
            emitting == {i \in markers : deciders(i) # {}}
            place(i) == Cardinality({k \in emitting : k <= i})
            above(i) ==
                {j \in 1..(i - 1) : j >= i - LookBehind /\ is(classPattern, j)}
            context(i) ==
                IF above(i) = {} THEN <<>>
                ELSE group(classPattern,
                           CHOOSE j \in above(i) : \A k \in above(i) : k <= j, 1)
        IN  /\ Len(fsd.deps) = Cardinality(emitting)
            /\ \A i \in emitting :
                /\ fsd.deps[place(i)].API # <<>>
                /\ fsd.deps[place(i)].Description = group(deprecatedPattern, i, 1)
            /\ \A i \in emitting, j \in emitting :
                (i < j /\ first(i) = first(j)) =>
                    fsd.deps[place(i)].API = fsd.deps[place(j)].API

\* C30: as above, but the two records of markers that resolve to the same
\* declaration have the same API name when the two markers have the same
\* class context, each marker's context being the nearest line with a type
\* declaration among the 50 lines above it.
C30_MarkersIndependentOwnContext ==
    fsd.err # "none" =>
        LET line(j) == TrimSpace(source[j])
            is(pattern, j) == FindStringSubmatch(pattern, line(j)).ok
            group(pattern, j, n) == FindStringSubmatch(pattern, line(j)).m[n]
            markers == {i \in 1..Len(source) : is(deprecatedPattern, i)}
            window(i) ==
                {j \in (i + 1)..Len(source) :
                    j <= i + LookForward /\ ~Skipped(line(j))}
            keyword(j) ==
                group(methodPattern, j, 1) \in {<<w>> : w \in ControlWords}
            decides(j) ==
                \/ is(classPattern, j)
                \/ is(constructorPattern, j)
                \/ is(getterPattern, j)
                \/ is(setterPattern, j)
                \/ is(methodPattern, j) /\ ~keyword(j)
                \/ ~is(methodPattern, j) /\ is(propertyPattern, j)
            deciders(i) == {j \in window(i) : decides(j)}
            first(i) == CHOOSE j \in deciders(i) : \A k \in deciders(i) : j <= k
            emitting == {i \in markers : deciders(i) # {}}
            place(i) == Cardinality({k \in emitting : k <= i})
            above(i) ==
                {j \in 1..(i - 1) : j >= i - LookBehind /\ is(classPattern, j)}
            context(i) ==
                IF above(i) = {} THEN <<>>
                ELSE group(classPattern,
                           CHOOSE j \in above(i) : \A k \in above(i) : k <= j, 1)
        IN  /\ Len(fsd.deps) = Cardinality(emitting)
            /\ \A i \in emitting :
                /\ fsd.deps[place(i)].API # <<>>
                /\ fsd.deps[place(i)].Description = group(deprecatedPattern, i, 1)
            /\ \A i \in emitting, j \in emitting :
                (i < j /\ first(i) = first(j)) =>
                    (context(i) = context(j)
                     => fsd.deps[place(i)].API = fsd.deps[place(j)].API)

\* two stacked markers above one method have each emitted their record
C30_Witness ==
    /\ fsd.err = "nil"
    /\ source = <<ClassLine("Widget"), MarkerLine(UseFooInstead),
                  MarkerLine(NoLongerSupported), MethodLine>>
    /\ Len(fsd.deps) = 2
    /\ fsd.deps[1].API = <<"Widget", ".", "bar">>
    /\ fsd.deps[2].API = <<"Widget", ".", "bar">>
    /\ fsd.deps[1].Description = UseFooInstead
    /\ fsd.deps[2].Description = NoLongerSupported

====
